---------------------------- MODULE Spec2Model ----------------------------
(***************************************************************************)
(* Hub/spoke VNet peering reconciliation (src/_py.py, VNetPeeringManager). *)
(*                                                                         *)
(* The provider (the per-subscription NetworkManagementClient) is the      *)
(* environment: every remote call either succeeds or raises, chosen        *)
(* nondeterministically.  The manager's methods are modelled step by step, *)
(* one action per remote call, with the local bookkeeping that follows the *)
(* call folded into the same action.                                       *)
(***************************************************************************)
EXTENDS Naturals, Integers, Sequences, FiniteSets, TLC

(***************************************************************************)
(* Bounds of the model.                                                    *)
(***************************************************************************)
\* how many times create_or_repair_peering_pair is invoked on one pair
MaxInvocations == 2

\* the largest max_users stress_test is called with
MaxUsers == 25

(***************************************************************************)
(* Values.  Optional[X] is a sequence of length 0 (None) or 1.             *)
(***************************************************************************)
None == <<>>
Some(x) == <<x>>
Truthy(o) == Len(o) > 0
Val(o) == o[1]

\* A resource id "/subscriptions/<sub>/resourceGroups/<rg>/.../<name>".  The
\* field cs records the letter case the text is written in, so that
\* str.lower() is a conversion and not the identity.
ResourceId(sub, rg, name, cs) == [sub |-> sub, rg |-> rg, name |-> name, cs |-> cs]
\* a region name or location, with the letter case it is written in
Text(t, cs) == [text |-> t, cs |-> cs]
\* str.lower()
Lower(s) == [s EXCEPT !.cs = "lower"]

\* vnet.id.split("/")[2]
SubscriptionOf(resource_id) == resource_id.sub
extract_resource_group(resource_id) == resource_id.rg

VNet(sub, rg, name, location, cs) ==
    [id |-> ResourceId(sub, rg, name, cs), name |-> name, location |-> location]

\* The networks the scans hand to the reconciler.
HubNames == {"cngfw-az-h1", "cngfw-az-h2"}
SpokeNames == {"opencti-s1"}
HubVNet(n) == VNet("subHub", "rg-hub", n, Text("eastus", "lower"), "Mixed")
SpokeVNet(n) == VNet("subA", "rg-a", n, Text("eastus", "lower"), "Mixed")
Pairs == HubNames \X SpokeNames
hub_vnet(p) == HubVNet(p[1])
spoke_vnet(p) == SpokeVNet(p[2])

\* PeeringConfig() defaults
PeeringConfig ==
    [allow_virtual_network_access |-> TRUE, allow_forwarded_traffic |-> TRUE,
     allow_gateway_transit |-> FALSE, use_remote_gateways |-> FALSE]

\* Names are strings; Len, \o and SubSeq act on their characters.
\* s[:n]
Slice(s, n) ==
    IF n >= 0 THEN SubSeq(s, 1, IF n < Len(s) THEN n ELSE Len(s))
    ELSE SubSeq(s, 1, IF Len(s) + n > 0 THEN Len(s) + n ELSE 0)

\* The network names generate_peering_name is applied to on its own: short
\* ones, one that contains the separator, names of the length the provider
\* allows that share their first 30 characters, and one beyond that length.
VNetNames ==
    { "hub", "hub-to-hub", "opencti-s1",
      "cngfw-az-hub-prod-eastus-network-001",
      "opencti-spoke-prod-eastus-net-156", "opencti-spoke-prod-eastus-net-284",
      "opencti-spoke-prod-eastus-net-0012", "opencti-spoke-prod-eastus-net-1973",
      "cngfw-az-transit-transit-transit-transit-transit-transit-transit-transit-transit-transit-transit-001" }

\* hashlib.md5(s.encode()).hexdigest() of every base name over VNetNames, as
\* MD5 computes it.
Md5Table ==
    { <<"cngfw_dnd-hub-to-cngfw-az-transit-transit-transit-transit-transit-transit-transit-transit-transit-transit-transit-001",
        "29c324aa7023f10f214c9c87d6811217">>,
      <<"cngfw_dnd-hub-to-hub-to-cngfw-az-transit-transit-transit-transit-transit-transit-transit-transit-transit-transit-transit-001",
        "b66d2b998fe7f71ca1884ec03eef5e7e">>,
      <<"cngfw_dnd-opencti-s1-to-cngfw-az-transit-transit-transit-transit-transit-transit-transit-transit-transit-transit-transit-001",
        "f3c7ff5e71a84e798fc4d1b505dd6254">>,
      <<"cngfw_dnd-cngfw-az-hub-prod-eastus-network-001-to-cngfw-az-hub-prod-eastus-network-001",
        "2320ac20c4e73a615e98ed702262dd71">>,
      <<"cngfw_dnd-cngfw-az-hub-prod-eastus-network-001-to-opencti-spoke-prod-eastus-net-156",
        "040e17377db44e96f4836231eeb07295">>,
      <<"cngfw_dnd-cngfw-az-hub-prod-eastus-network-001-to-opencti-spoke-prod-eastus-net-284",
        "040e3e3f3c52074e390484ace3654e72">>,
      <<"cngfw_dnd-cngfw-az-hub-prod-eastus-network-001-to-opencti-spoke-prod-eastus-net-0012",
        "f54175e384398fb7e49fd08358f8d1bc">>,
      <<"cngfw_dnd-cngfw-az-hub-prod-eastus-network-001-to-opencti-spoke-prod-eastus-net-1973",
        "d2d82676639da61b09a71b9c3f279c79">>,
      <<"cngfw_dnd-cngfw-az-hub-prod-eastus-network-001-to-cngfw-az-transit-transit-transit-transit-transit-transit-transit-transit-transit-transit-transit-001",
        "fdd7cdd3b8727c3ac5bf00e0fafd4766">>,
      <<"cngfw_dnd-opencti-spoke-prod-eastus-net-156-to-cngfw-az-hub-prod-eastus-network-001",
        "5e66a683d913f81ebbc6179a8863cc05">>,
      <<"cngfw_dnd-opencti-spoke-prod-eastus-net-156-to-opencti-spoke-prod-eastus-net-156",
        "05fb6769437c4c2fc0bc34eac1ee36af">>,
      <<"cngfw_dnd-opencti-spoke-prod-eastus-net-156-to-opencti-spoke-prod-eastus-net-284",
        "2d12d1902eb993820f80d2c9b7a9797b">>,
      <<"cngfw_dnd-opencti-spoke-prod-eastus-net-156-to-opencti-spoke-prod-eastus-net-0012",
        "0395c08e21b806fb96e5c6f679125606">>,
      <<"cngfw_dnd-opencti-spoke-prod-eastus-net-156-to-opencti-spoke-prod-eastus-net-1973",
        "f3fb6a3271d07f8a5f847d6095d6eb53">>,
      <<"cngfw_dnd-opencti-spoke-prod-eastus-net-156-to-cngfw-az-transit-transit-transit-transit-transit-transit-transit-transit-transit-transit-transit-001",
        "4f0d6fc59fc863ea2050b6d01e61200f">>,
      <<"cngfw_dnd-opencti-spoke-prod-eastus-net-284-to-cngfw-az-hub-prod-eastus-network-001",
        "ff1b7fc90250123593fca083b5be6e5a">>,
      <<"cngfw_dnd-opencti-spoke-prod-eastus-net-284-to-opencti-spoke-prod-eastus-net-156",
        "8324e409246dfdede464429135a194b6">>,
      <<"cngfw_dnd-opencti-spoke-prod-eastus-net-284-to-opencti-spoke-prod-eastus-net-284",
        "3ee0663861fd25caeb21e10569106a86">>,
      <<"cngfw_dnd-opencti-spoke-prod-eastus-net-284-to-opencti-spoke-prod-eastus-net-0012",
        "eb727ce5d85594140702b22deb81949e">>,
      <<"cngfw_dnd-opencti-spoke-prod-eastus-net-284-to-opencti-spoke-prod-eastus-net-1973",
        "51e8a46d9427c5714fa1756c64508b96">>,
      <<"cngfw_dnd-opencti-spoke-prod-eastus-net-284-to-cngfw-az-transit-transit-transit-transit-transit-transit-transit-transit-transit-transit-transit-001",
        "06df5fea9cc7912997d21f09b71c3813">>,
      <<"cngfw_dnd-opencti-spoke-prod-eastus-net-0012-to-cngfw-az-hub-prod-eastus-network-001",
        "7878685b717160d6cac846486ca3a989">>,
      <<"cngfw_dnd-opencti-spoke-prod-eastus-net-0012-to-opencti-spoke-prod-eastus-net-156",
        "3930fabf1b7a20ba6bf51139383d3f33">>,
      <<"cngfw_dnd-opencti-spoke-prod-eastus-net-0012-to-opencti-spoke-prod-eastus-net-284",
        "40a4dfd606962932e3ac9f553c55a4fd">>,
      <<"cngfw_dnd-opencti-spoke-prod-eastus-net-0012-to-opencti-spoke-prod-eastus-net-0012",
        "e24e2452b511c71cd95911741aa773af">>,
      <<"cngfw_dnd-opencti-spoke-prod-eastus-net-0012-to-opencti-spoke-prod-eastus-net-1973",
        "c54e06dc136927055224cf4d193519d4">>,
      <<"cngfw_dnd-opencti-spoke-prod-eastus-net-0012-to-cngfw-az-transit-transit-transit-transit-transit-transit-transit-transit-transit-transit-transit-001",
        "4d92cdac41c57767309fc754cec70861">>,
      <<"cngfw_dnd-opencti-spoke-prod-eastus-net-1973-to-cngfw-az-hub-prod-eastus-network-001",
        "f499995ba492557c02512522d4f76de2">>,
      <<"cngfw_dnd-opencti-spoke-prod-eastus-net-1973-to-opencti-spoke-prod-eastus-net-156",
        "5b298735e4129d2abc3077af902395b1">>,
      <<"cngfw_dnd-opencti-spoke-prod-eastus-net-1973-to-opencti-spoke-prod-eastus-net-284",
        "da1b45a6781564edcb49ac4075f54163">>,
      <<"cngfw_dnd-opencti-spoke-prod-eastus-net-1973-to-opencti-spoke-prod-eastus-net-0012",
        "c54e9bdfc43b48a3fd9da0bf386322dc">>,
      <<"cngfw_dnd-opencti-spoke-prod-eastus-net-1973-to-opencti-spoke-prod-eastus-net-1973",
        "4c0c64707c71a540aaa6fa8abb46e2d2">>,
      <<"cngfw_dnd-opencti-spoke-prod-eastus-net-1973-to-cngfw-az-transit-transit-transit-transit-transit-transit-transit-transit-transit-transit-transit-001",
        "323dbf75134134d18b3f26440b244e8f">>,
      <<"cngfw_dnd-cngfw-az-transit-transit-transit-transit-transit-transit-transit-transit-transit-transit-transit-001-to-hub",
        "4c4cea0c00b2f4059b41140c52b5ff2a">>,
      <<"cngfw_dnd-cngfw-az-transit-transit-transit-transit-transit-transit-transit-transit-transit-transit-transit-001-to-hub-to-hub",
        "34adc3e8c2d4b31828dfd32111e596e7">>,
      <<"cngfw_dnd-cngfw-az-transit-transit-transit-transit-transit-transit-transit-transit-transit-transit-transit-001-to-opencti-s1",
        "be1f82ebaae98cb92acd492628aebd6c">>,
      <<"cngfw_dnd-cngfw-az-transit-transit-transit-transit-transit-transit-transit-transit-transit-transit-transit-001-to-cngfw-az-hub-prod-eastus-network-001",
        "fbef392695c579b062774c55dfbfd5c7">>,
      <<"cngfw_dnd-cngfw-az-transit-transit-transit-transit-transit-transit-transit-transit-transit-transit-transit-001-to-opencti-spoke-prod-eastus-net-156",
        "e6d6c65fd6e612bc4828616305af30c3">>,
      <<"cngfw_dnd-cngfw-az-transit-transit-transit-transit-transit-transit-transit-transit-transit-transit-transit-001-to-opencti-spoke-prod-eastus-net-284",
        "dc5165955baebcd74f16d6c0f8675110">>,
      <<"cngfw_dnd-cngfw-az-transit-transit-transit-transit-transit-transit-transit-transit-transit-transit-transit-001-to-opencti-spoke-prod-eastus-net-0012",
        "7778617ed0a5a07410a57c23590fc357">>,
      <<"cngfw_dnd-cngfw-az-transit-transit-transit-transit-transit-transit-transit-transit-transit-transit-transit-001-to-opencti-spoke-prod-eastus-net-1973",
        "4756f43b335f4b1a7dd0681e7bcc6ec7">>,
      <<"cngfw_dnd-cngfw-az-transit-transit-transit-transit-transit-transit-transit-transit-transit-transit-transit-001-to-cngfw-az-transit-transit-transit-transit-transit-transit-transit-transit-transit-transit-transit-001",
        "9b3fc675946fc8fed00db9e5595c8356">>,
      <<"cngfw_dnd-hub-to-hub",
        "8d07e543cf8d0a068e761ab4c6dd9919">>,
      <<"cngfw_dnd-hub-to-opencti-s1",
        "e4ffec5850b7cbb729b2bbe5aee4b559">>,
      <<"cngfw_dnd-hub-to-cngfw-az-hub-prod-eastus-network-001",
        "74aa589ab9cf63f8f805e3e71a416b44">>,
      <<"cngfw_dnd-hub-to-opencti-spoke-prod-eastus-net-156",
        "ca919bbfe801f71f8633ef20ebf207a1">>,
      <<"cngfw_dnd-hub-to-opencti-spoke-prod-eastus-net-284",
        "e16773f144beb5a743a42b9efb54128d">>,
      <<"cngfw_dnd-hub-to-opencti-spoke-prod-eastus-net-0012",
        "ffb73e61253c17cb3f7b60522375e61e">>,
      <<"cngfw_dnd-hub-to-opencti-spoke-prod-eastus-net-1973",
        "d00b466e5b5d8f4bd47dd4c6c1151147">>,
      <<"cngfw_dnd-hub-to-hub-to-hub",
        "cc807d5701b76aaf2428ad73f1ea82d0">>,
      <<"cngfw_dnd-hub-to-hub-to-hub-to-hub",
        "5872607d433591d98079eb5b009cab58">>,
      <<"cngfw_dnd-hub-to-hub-to-opencti-s1",
        "db252ea86584c18c8270a0a95edf5cd5">>,
      <<"cngfw_dnd-hub-to-hub-to-cngfw-az-hub-prod-eastus-network-001",
        "38e6d1e43314d5d9cc525ef5e6f6d1c0">>,
      <<"cngfw_dnd-hub-to-hub-to-opencti-spoke-prod-eastus-net-156",
        "8062ffba5d0cc73aee40e1bca41bdcdc">>,
      <<"cngfw_dnd-hub-to-hub-to-opencti-spoke-prod-eastus-net-284",
        "f535b9f273c59366b0d82eda2ad87a62">>,
      <<"cngfw_dnd-hub-to-hub-to-opencti-spoke-prod-eastus-net-0012",
        "bef1364ba468326536a07c5a7b4e69b2">>,
      <<"cngfw_dnd-hub-to-hub-to-opencti-spoke-prod-eastus-net-1973",
        "ffc91cab95a8e5391d1c3b9c83c2b4e0">>,
      <<"cngfw_dnd-opencti-s1-to-hub",
        "5c0bcd55a56943000a49b1cee411e20f">>,
      <<"cngfw_dnd-opencti-s1-to-hub-to-hub",
        "430894cfc683c7227f5288adff7a0f6b">>,
      <<"cngfw_dnd-opencti-s1-to-opencti-s1",
        "f4559725dc57fb27f720b678ae6fded1">>,
      <<"cngfw_dnd-opencti-s1-to-cngfw-az-hub-prod-eastus-network-001",
        "c9c57ee428c2faeed11669ef56e9604c">>,
      <<"cngfw_dnd-opencti-s1-to-opencti-spoke-prod-eastus-net-156",
        "be94c4d26141ee6ebbe37fe2d7b75076">>,
      <<"cngfw_dnd-opencti-s1-to-opencti-spoke-prod-eastus-net-284",
        "45a119581ed1c8ab9fae341fc66b319d">>,
      <<"cngfw_dnd-opencti-s1-to-opencti-spoke-prod-eastus-net-0012",
        "c491b2424e2c6d7723473aa1ef666fb9">>,
      <<"cngfw_dnd-opencti-s1-to-opencti-spoke-prod-eastus-net-1973",
        "01370e7f4e458040a96f8e05f07df993">>,
      <<"cngfw_dnd-cngfw-az-hub-prod-eastus-network-001-to-hub",
        "c27c9cd43696e460efaa225f4c1fa408">>,
      <<"cngfw_dnd-cngfw-az-hub-prod-eastus-network-001-to-hub-to-hub",
        "bfb3dfd08ca6a196701230b3f505d66a">>,
      <<"cngfw_dnd-cngfw-az-hub-prod-eastus-network-001-to-opencti-s1",
        "aad8bc1f25676f61bb6184e15895be42">>,
      <<"cngfw_dnd-opencti-spoke-prod-eastus-net-156-to-hub",
        "7a9479bbabb8ee98c57dd0bdd3d95141">>,
      <<"cngfw_dnd-opencti-spoke-prod-eastus-net-156-to-hub-to-hub",
        "c4109dc46bc2e4da70322838df60f1c8">>,
      <<"cngfw_dnd-opencti-spoke-prod-eastus-net-156-to-opencti-s1",
        "eb8e000cd5d12a99e728c06a69ef33d1">>,
      <<"cngfw_dnd-opencti-spoke-prod-eastus-net-284-to-hub",
        "e5d7211b1f1216ac88b37ad66e2436fe">>,
      <<"cngfw_dnd-opencti-spoke-prod-eastus-net-284-to-hub-to-hub",
        "a3983b77d4ad62161e4a066be89f0f51">>,
      <<"cngfw_dnd-opencti-spoke-prod-eastus-net-284-to-opencti-s1",
        "75d324859b81ca7c350e00c637a9fd32">>,
      <<"cngfw_dnd-opencti-spoke-prod-eastus-net-0012-to-hub",
        "317d1710460f185f493698e1806a5da5">>,
      <<"cngfw_dnd-opencti-spoke-prod-eastus-net-0012-to-hub-to-hub",
        "ecbd45bbf42bd45798231a7d387d7108">>,
      <<"cngfw_dnd-opencti-spoke-prod-eastus-net-0012-to-opencti-s1",
        "716e3bd9b90eae8b5b9a151a8ca3a019">>,
      <<"cngfw_dnd-opencti-spoke-prod-eastus-net-1973-to-hub",
        "ced0a2f00bd02035c81fa993736670b3">>,
      <<"cngfw_dnd-opencti-spoke-prod-eastus-net-1973-to-hub-to-hub",
        "6ec391c6abd9479c002062d6cde88488">>,
      <<"cngfw_dnd-opencti-spoke-prod-eastus-net-1973-to-opencti-s1",
        "6f29c4766eaf9a61ba492076ff16ab54">> }

md5_hexdigest(s) == (CHOOSE e \in Md5Table : e[1] = s)[2]

\* the default of the parameter max_length
DefaultMaxLength == 79

generate_peering_name_no_room_for_hash(vnet_a_name, vnet_b_name, max_length) ==
    LET base_name == "cngfw_dnd-" \o vnet_a_name \o "-to-" \o vnet_b_name
        max_each == (max_length - Len("cngfw_dnd--to-")) \div 2
    IN IF Len(base_name) <= max_length THEN base_name
       ELSE "cngfw_dnd-" \o Slice(vnet_a_name, max_each) \o "-to-"
                \o Slice(vnet_b_name, max_each) \o "-"
                \o Slice(md5_hexdigest(base_name), 4)

generate_peering_name(vnet_a_name, vnet_b_name, max_length) ==
    LET base_name == "cngfw_dnd-" \o vnet_a_name \o "-to-" \o vnet_b_name
    IN IF Len(base_name) <= max_length THEN base_name
       ELSE LET prefix_length == Len("cngfw_dnd--to-")
                max_each == (max_length - prefix_length) \div 2
                hash_suffix == Slice(md5_hexdigest(base_name), 4)
                short_a == Slice(vnet_a_name, max_each - 2)
                short_b == Slice(vnet_b_name, max_each - 2)
            IN "cngfw_dnd-" \o short_a \o "-to-" \o short_b \o "-" \o hash_suffix

\* peering.name.startswith("cngfw_dnd")
HasOwnershipPrefix(peering_name) ==
    Len(peering_name) >= Len("cngfw_dnd")
    /\ SubSeq(peering_name, 1, Len("cngfw_dnd")) = "cngfw_dnd"

\* A peering is addressed at the provider by the client of the owning
\* subscription, the resource group, the network name and the peering name.
PeeringKey(vnet, peering_name) ==
    <<SubscriptionOf(vnet.id), extract_resource_group(vnet.id), vnet.name, peering_name>>

Peering(name, state, access, forwarded, sync, remote_id) ==
    [name |-> name, peering_state |-> state,
     allow_virtual_network_access |-> access,
     allow_forwarded_traffic |-> forwarded,
     allow_gateway_transit |-> FALSE, use_remote_gateways |-> FALSE,
     peering_sync_level |-> sync, remote_virtual_network |-> remote_id]

\* peering_sync_level: "NoAttr" stands for an object without the attribute.
SyncLevels == {"NoAttr", "NoneValue", "FullyInSync", "LocalNotInSync"}

is_healthy_peering_ignoring_forwarded(peering) ==
    IF ~Truthy(peering) THEN FALSE
    ELSE /\ Val(peering).peering_state = "Connected"
         /\ Val(peering).allow_virtual_network_access
         /\ Val(peering).peering_sync_level \in {"NoAttr", "FullyInSync"}

is_healthy_peering(peering) ==
    IF ~Truthy(peering) THEN FALSE
    ELSE LET basic_health ==
                 /\ Val(peering).peering_state = "Connected"
                 /\ Val(peering).allow_virtual_network_access
                 /\ Val(peering).allow_forwarded_traffic
             sync_healthy ==
                 IF Val(peering).peering_sync_level # "NoAttr"
                 THEN Val(peering).peering_sync_level = "FullyInSync"
                 ELSE TRUE
         IN basic_health /\ sync_healthy


(***************************************************************************)
(* State.                                                                  *)
(***************************************************************************)
VARIABLES
    peerings,       \* the provider: PeeringKey -> Optional[Peering]
    report_data,    \* self.report_data
    failure_log,    \* records written through self.failure_logger by create_peering
    pc,             \* per pair: where create_or_repair_peering_pair stands
    existing,       \* per pair: existing_hub_to_spoke, existing_spoke_to_hub
    attempt,        \* per pair: loop variable of the running create_peering
    success,        \* per pair: hub_success, spoke_success
    result,         \* per pair: the PeeringResult returned last
    invocations,    \* per pair: invocations started so far
    hist,           \* per pair: what the current invocation saw and issued
    dry_run,        \* the dry_run argument of the orphan sweep
    valid_vnet_ids, \* orphan sweep: the set built by lines 564-575
    build_pos,      \* orphan sweep: next subscription of the loop of line 569
    worker,         \* orphan sweep: per subscription, process_subscription_orphans
    sweep_hist,     \* orphan sweep: what it saw, logged and issued
    thread,         \* per pool thread: where its create_peering call stands
    race_hist,      \* what the create_peering calls of the threads did
    scan,           \* the run of main: configuration, scans, region pairs
    naming,         \* the last two calls of generate_peering_name made on its own
    health,         \* the last call of is_healthy_peering made on its own
    run,            \* main from the loop of line 1188 to the end of the process
    provider,       \* what the provider reports for a peering it created
    units,          \* the peering records the pair units of one pool address
    stress          \* one call of WebPerformanceTester.stress_test

pairvars == <<pc, existing, attempt, success, result, invocations, hist>>
sweepvars == <<dry_run, valid_vnet_ids, build_pos, worker, sweep_hist>>
threadvars == <<thread, race_hist>>
fnvars == <<naming, health>>
extvars == <<units, stress>>
vars == <<peerings, report_data, failure_log, pairvars, sweepvars, threadvars, scan, fnvars,
         run, provider, extvars>>

Sides == {"hub", "spoke"}

\* hub_to_spoke_name / spoke_to_hub_name and the records they address
hub_to_spoke_name(p) ==
    generate_peering_name(hub_vnet(p).name, spoke_vnet(p).name, DefaultMaxLength)
spoke_to_hub_name(p) ==
    generate_peering_name(spoke_vnet(p).name, hub_vnet(p).name, DefaultMaxLength)
SideName(p, side) == IF side = "hub" THEN hub_to_spoke_name(p) ELSE spoke_to_hub_name(p)
SideSource(p, side) == IF side = "hub" THEN hub_vnet(p) ELSE spoke_vnet(p)
SideTarget(p, side) == IF side = "hub" THEN spoke_vnet(p) ELSE hub_vnet(p)
SideKey(p, side) == PeeringKey(SideSource(p, side), SideName(p, side))

PairKeys == {SideKey(p, side) : p \in Pairs, side \in Sides}

\* the exception a remote call raises; the attempt that raised it is part of
\* its text, so that the errors of the attempts of one call differ
RemoteError(a) == [type |-> "AzureError", raised_by_attempt |-> a + 1]

\* what the provider answers to a successful create_or_update
CreatedStates == {"Initiated", "Connected"}

\* The provider answers with peering objects of its making: peering_state
\* is one of created_states, peering_sync_level is created_sync.
DefaultProvider == [created_states |-> CreatedStates, created_sync |-> "FullyInSync"]

(***************************************************************************)
(* __init__: the report as constructed (no "critical_failures" key yet).   *)
(***************************************************************************)
InitReport ==
    [successful_peerings |-> <<>>, failed_peerings |-> <<>>,
     all_peerings |-> <<>>, deleted_orphans |-> <<>>,
     metrics |-> [total_vnets_scanned |-> 0, total_peerings_checked |-> 0,
                  total_operations |-> 0],
     critical_failures |-> [present |-> FALSE, items |-> <<>>]]

\* records the provider may hold for a side before the first invocation
InitialPeerings(p, side) ==
    LET n == SideName(p, side)
        r == SideTarget(p, side).id
    IN { None,
         Some(Peering(n, "Connected", TRUE, TRUE, "FullyInSync", r)),
         Some(Peering(n, "Connected", TRUE, FALSE, "FullyInSync", r)),
         Some(Peering(n, "Disconnected", TRUE, TRUE, "NoAttr", r)) }

NoHist == [pre |-> [hub |-> None, spoke |-> None], calls |-> <<>>,
           cf0 |-> [hub |-> 0, spoke |-> 0], failed0 |-> 0]


(***************************************************************************)
(* Helpers shared by the methods.                                          *)
(***************************************************************************)
\* self.report_data["metrics"]["total_operations"] += 1
CountOperation(rd) == [rd EXCEPT !.metrics.total_operations = @ + 1]

\* self.report_data["metrics"]["total_peerings_checked"] += 1
CountChecked(rd) == [rd EXCEPT !.metrics.total_peerings_checked = @ + 1]

\* number of critical-failure log records about one peering name
CriticalCount(log, peering_name) ==
    Cardinality({i \in 1..Len(log) : log[i].peering_name = peering_name})

Log(p, call) == [hist EXCEPT ![p].calls = Append(@, call)]

(***************************************************************************)
(* create_or_repair_peering_pair, lines 455-468: the two reads.            *)
(***************************************************************************)
\* The pool starts the call: names are generated, nothing is read yet.
Invoke(p) ==
    /\ pc[p] = "idle"
    /\ invocations[p] < MaxInvocations
    /\ invocations' = [invocations EXCEPT ![p] = @ + 1]
    /\ pc' = [pc EXCEPT ![p] = "get_hub"]
    /\ hist' = [hist EXCEPT ![p] =
                  [pre |-> [hub |-> peerings[SideKey(p, "hub")],
                            spoke |-> peerings[SideKey(p, "spoke")]],
                   calls |-> <<>>,
                   cf0 |-> [hub |-> CriticalCount(failure_log, SideName(p, "hub")),
                            spoke |-> CriticalCount(failure_log, SideName(p, "spoke"))],
                   failed0 |-> Len(report_data.failed_peerings)]]
    /\ UNCHANGED <<peerings, report_data, failure_log, existing, attempt, success, result>>
    /\ UNCHANGED <<sweepvars, threadvars, scan, fnvars, run, provider, extvars>>

\* get_existing_peering: the value returned when the remote get answers
\* (a peering, or ResourceNotFoundError -> None) ...
get_existing_peering_answer(key) == peerings[key]

\* ... and when it raises anything else: the warning is logged, None returned.
get_existing_peering_on_error(key) == None

GetExisting(p, side, next) ==
    /\ pc[p] = "get_" \o side
    /\ \E raised \in BOOLEAN :
         LET got == IF raised THEN get_existing_peering_on_error(SideKey(p, side))
                    ELSE get_existing_peering_answer(SideKey(p, side))
         IN /\ existing' = [existing EXCEPT ![p][side] = got]
            /\ report_data' = IF ~raised /\ Truthy(peerings[SideKey(p, side)])
                              THEN CountChecked(report_data) ELSE report_data
            /\ hist' = Log(p, [op |-> "get", side |-> side, ok |-> ~raised,
                               ret |-> Truthy(got)])
    /\ pc' = [pc EXCEPT ![p] = next]
    /\ UNCHANGED <<peerings, failure_log, attempt, success, result, invocations>>
    /\ UNCHANGED <<sweepvars, threadvars, scan, fnvars, run, provider, extvars>>

GetExistingHub(p) == GetExisting(p, "hub", "get_spoke")
GetExistingSpoke(p) == GetExisting(p, "spoke", "decide")

(***************************************************************************)
(* Lines 466-486: the health check and the choice of what to do.           *)
(***************************************************************************)
PeeringResult(p, status, action, error) ==
    [hub_vnet |-> hub_vnet(p).name, spoke_vnet |-> spoke_vnet(p).name,
     status |-> status, action |-> action,
     region_pair |-> "hubUS <-> spokeUS", error |-> error]

\* the append of line 537 made in the success branch only
RecordResult_success_only(all_peerings, r) ==
    IF r.status = "Failed" THEN all_peerings ELSE Append(all_peerings, r)

\* lines 479 and 537: self.report_data["all_peerings"].append(result)
RecordResult(all_peerings, r) == Append(all_peerings, r)

\* a status the code does not have
NoChangeStatus_healthy == "Healthy"

\* line 475: the status given to a pair found healthy
NoChangeStatus == "Connected"

\* line 486
NeedsDelete(existing_hub_to_spoke, existing_spoke_to_hub, hub_healthy, spoke_healthy) ==
    /\ Truthy(existing_hub_to_spoke) \/ Truthy(existing_spoke_to_hub)
    /\ ~hub_healthy \/ ~spoke_healthy

\* lines 489-498: the first step after the decision to repair
AfterDecision(existing_hub_to_spoke, existing_spoke_to_hub, hub_healthy, spoke_healthy) ==
    IF NeedsDelete(existing_hub_to_spoke, existing_spoke_to_hub, hub_healthy, spoke_healthy)
    THEN IF Truthy(existing_hub_to_spoke) THEN "delete_hub" ELSE "delete_spoke"
    ELSE "create_hub"

Decide(p) ==
    /\ pc[p] = "decide"
    /\ LET hub_healthy == is_healthy_peering(existing[p].hub)
           spoke_healthy == is_healthy_peering(existing[p].spoke)
       IN IF hub_healthy /\ spoke_healthy
          THEN LET r == PeeringResult(p, NoChangeStatus, "No Change", "None")
               IN /\ report_data' = [report_data EXCEPT !.all_peerings = RecordResult(@, r)]
                  /\ result' = [result EXCEPT ![p] = Some(r)]
                  /\ pc' = [pc EXCEPT ![p] = "return"]
          ELSE /\ pc' = [pc EXCEPT ![p] =
                           AfterDecision(existing[p].hub, existing[p].spoke,
                                         hub_healthy, spoke_healthy)]
               /\ UNCHANGED <<report_data, result>>
    /\ UNCHANGED <<peerings, failure_log, existing, attempt, success, invocations, hist>>
    /\ UNCHANGED <<sweepvars, threadvars, scan, fnvars, run, provider, extvars>>


(***************************************************************************)
(* delete_peering, lines 437-453: one begin_delete, no loop around it.     *)
(***************************************************************************)
\* the except branch returning True as well
delete_peering_returns_true(raised) == TRUE

\* the value handed back to the caller (True after the operation's result,
\* False from the except branch)
delete_peering_returns(raised) == ~raised

ProviderAfterDelete(ps, key, raised) ==
    IF raised THEN ps ELSE [ps EXCEPT ![key] = None]

ReportAfterDelete(rd, raised) == IF raised THEN rd ELSE CountOperation(rd)

\* a delete that raised is issued again
AfterDelete_retrying(side, raised, existing_spoke_to_hub) ==
    IF raised THEN "delete_" \o side
    ELSE IF side = "hub" /\ Truthy(existing_spoke_to_hub) THEN "delete_spoke"
    ELSE "create_hub"

\* lines 489-498: what follows a delete_peering call of the reconciler; the
\* value it returned is not looked at
AfterDelete(side, raised, existing_spoke_to_hub) ==
    IF side = "hub" /\ Truthy(existing_spoke_to_hub) THEN "delete_spoke"
    ELSE "create_hub"

DeleteSide(p, side) ==
    /\ pc[p] = "delete_" \o side
    /\ \E raised \in BOOLEAN :
         /\ peerings' = ProviderAfterDelete(peerings, SideKey(p, side), raised)
         /\ report_data' = ReportAfterDelete(report_data, raised)
         /\ hist' = Log(p, [op |-> "delete", side |-> side, ok |-> ~raised,
                            ret |-> delete_peering_returns(raised)])
         /\ pc' = [pc EXCEPT ![p] = AfterDelete(side, raised, existing[p].spoke)]
    /\ UNCHANGED <<failure_log, existing, attempt, success, result, invocations>>
    /\ UNCHANGED <<sweepvars, threadvars, scan, fnvars, run, provider, extvars>>

DeleteHub(p) == DeleteSide(p, "hub")
DeleteSpoke(p) == DeleteSide(p, "spoke")

(***************************************************************************)
(* create_peering, lines 370-435: the retry loop, one attempt per step.    *)
(***************************************************************************)
\* one attempt too many
max_retries_off_by_one == 3 + 1

max_retries == 3

\* lines 409-419: the record written to the failure log
FailureLogRecord(source_vnet, target_vnet, peering_name, config, e) ==
    [peering_name |-> peering_name,
     source_name |-> source_vnet.name, source_id |-> source_vnet.id,
     target_name |-> target_vnet.name, target_id |-> target_vnet.id,
     resource_group |-> extract_resource_group(source_vnet.id),
     subscription |-> SubscriptionOf(source_vnet.id),
     configuration |-> config, final_error |-> e]

\* lines 422-431: the entry added to report_data["critical_failures"]
ReportCriticalFailure(rd, source_vnet, target_vnet, peering_name, e) ==
    [rd EXCEPT !.critical_failures =
        [present |-> TRUE,
         items |-> Append(IF @.present THEN @.items ELSE <<>>,
                          [peering_name |-> peering_name,
                           source_vnet |-> source_vnet.name,
                           target_vnet |-> target_vnet.name,
                           error |-> e])]]

\* the loop going on after a successful attempt (the return inside it lost)
CreateLoopStep_no_return(ok, a) ==
    IF a < max_retries - 1 THEN "retry"
    ELSE IF ok THEN "return_true" ELSE "exhausted"

\* One pass of the loop of lines 379-433: a successful attempt returns True
\* (line 399); a failed one is followed by another attempt while attempt <
\* max_retries - 1 (line 402) and by the escalation and return False after it.
CreateLoopStep(ok, a) ==
    IF ok THEN "return_true"
    ELSE IF a < max_retries - 1 THEN "retry" ELSE "exhausted"

\* the spoke-side create left out after a hub-side create that failed
AfterCreate_short_circuit(next, created) == IF created THEN next ELSE "record"

\* lines 498-501: the statement after a create_peering call that returned
\* does not depend on the value returned
AfterCreate(next, created) == next

CreateAttempt(p, side, next) ==
    /\ pc[p] = "create_" \o side
    /\ \E ok \in BOOLEAN :
         LET src == SideSource(p, side)
             tgt == SideTarget(p, side)
             n == SideName(p, side)
             e == RemoteError(attempt[p])
             step == CreateLoopStep(ok, attempt[p])
         IN /\ hist' = Log(p, [op |-> "create", side |-> side, ok |-> ok, ret |-> ok])
            /\ IF ok
               THEN /\ \E st \in provider.created_states :
                         peerings' = [peerings EXCEPT ![SideKey(p, side)] =
                             Some(Peering(n, st,
                                          PeeringConfig.allow_virtual_network_access,
                                          PeeringConfig.allow_forwarded_traffic,
                                          provider.created_sync, tgt.id))]
                    /\ report_data' = CountOperation(report_data)
                    /\ UNCHANGED failure_log
               ELSE /\ UNCHANGED peerings
                    /\ IF step = "exhausted"
                       THEN /\ failure_log' = Append(failure_log,
                                   FailureLogRecord(src, tgt, n, PeeringConfig, e))
                            /\ report_data' =
                                   ReportCriticalFailure(report_data, src, tgt, n, e)
                       ELSE UNCHANGED <<failure_log, report_data>>
            /\ IF step = "retry"
               THEN /\ attempt' = [attempt EXCEPT ![p] = @ + 1]
                    /\ UNCHANGED <<success, pc>>
               ELSE /\ success' = [success EXCEPT ![p][side] = (step = "return_true")]
                    /\ attempt' = [attempt EXCEPT ![p] = 0]
                    /\ pc' = [pc EXCEPT ![p] = AfterCreate(next, step = "return_true")]
    /\ UNCHANGED <<existing, result, invocations>>
    /\ UNCHANGED <<sweepvars, threadvars, scan, fnvars, run, provider, extvars>>

CreateHub(p) == CreateAttempt(p, "hub", "create_spoke")
CreateSpoke(p) == CreateAttempt(p, "spoke", "record")

(***************************************************************************)
(* Lines 501-538: the result of a pair that was not found healthy.         *)
(***************************************************************************)
\* line 503
ActionFor(existing_hub_to_spoke, existing_spoke_to_hub) ==
    IF Truthy(existing_hub_to_spoke) \/ Truthy(existing_spoke_to_hub)
    THEN "Repaired" ELSE "Created"

\* the two directions exchanged in the text
error_msg_swapped(hub_success, spoke_success) ==
    <<"Hub->Spoke: ", IF ~spoke_success THEN "Failed" ELSE "OK",
      ", Spoke->Hub: ", IF ~hub_success THEN "Failed" ELSE "OK">>

\* lines 519-520
error_msg(hub_success, spoke_success) ==
    <<"Hub->Spoke: ", IF ~hub_success THEN "Failed" ELSE "OK",
      ", Spoke->Hub: ", IF ~spoke_success THEN "Failed" ELSE "OK">>

Record(p) ==
    /\ pc[p] = "record"
    /\ IF success[p].hub /\ success[p].spoke
       THEN LET action == ActionFor(existing[p].hub, existing[p].spoke)
                r == PeeringResult(p, "Connected", action, "None")
            IN /\ report_data' =
                     [report_data EXCEPT
                        !.successful_peerings =
                            Append(@, <<hub_vnet(p).name, "Hub", hub_to_spoke_name(p),
                                        spoke_vnet(p).name, "Spoke", action>>),
                        !.all_peerings = RecordResult(@, r)]
               /\ result' = [result EXCEPT ![p] = Some(r)]
       ELSE LET msg == error_msg(success[p].hub, success[p].spoke)
                r == PeeringResult(p, "Failed", "Failed", msg)
            IN /\ report_data' =
                     [report_data EXCEPT
                        !.failed_peerings =
                            Append(@, [hub_vnet |-> hub_vnet(p).name,
                                       spoke_vnet |-> spoke_vnet(p).name,
                                       error |-> msg]),
                        !.all_peerings = RecordResult(@, r)]
               /\ result' = [result EXCEPT ![p] = Some(r)]
    /\ pc' = [pc EXCEPT ![p] = "return"]
    /\ UNCHANGED <<peerings, failure_log, existing, attempt, success, invocations, hist>>
    /\ UNCHANGED <<sweepvars, threadvars, scan, fnvars, run, provider, extvars>>

\* The call returns to process_region_pair (lines 686-690), which only logs the
\* result; the locals of the call are gone.
Return(p) ==
    /\ pc[p] = "return"
    /\ pc' = [pc EXCEPT ![p] = "idle"]
    /\ existing' = [existing EXCEPT ![p] = [hub |-> None, spoke |-> None]]
    /\ success' = [success EXCEPT ![p] = [hub |-> FALSE, spoke |-> FALSE]]
    /\ result' = [result EXCEPT ![p] = None]
    /\ hist' = [hist EXCEPT ![p] = NoHist]
    /\ UNCHANGED <<peerings, report_data, failure_log, attempt, invocations>>
    /\ UNCHANGED <<sweepvars, threadvars, scan, fnvars, run, provider, extvars>>

(***************************************************************************)
(* The orphan sweep, lines 561-623.  In the source the body follows        *)
(* cleanup_failure_log without a def line of its own; it is modelled as    *)
(* the method main calls at line 1202,                                     *)
(*     cleanup_orphan_peerings(valid_regions, dry_run=args.dry_run).       *)
(***************************************************************************)
\* self.clients.items(): the subscriptions that have a client
ClientSubs == <<"subHub", "subA">>

\* a spoke network outside the valid regions, and one that no longer exists
OldVNet == VNet("subA", "rg-a", "opencti-old", Text("centralus", "lower"), "Mixed")
GoneVNet == VNet("subA", "rg-a", "opencti-gone", Text("eastus", "lower"), "Mixed")

\* client.virtual_networks.list_all() of each subscription
ListAll(sub) ==
    IF sub = "subHub" THEN <<HubVNet("cngfw-az-h1")>>
    ELSE <<SpokeVNet("opencti-s1"), OldVNet>>

\* the regions main collects from the region files (lines 1197-1200)
ValidRegions == {Text("eastus", "Mixed")}

\* The peerings the provider may hold when the sweep starts: per network, in
\* the order client.virtual_network_peerings.list returns them.
SweepPeerings(vnet_name) ==
    IF vnet_name = "cngfw-az-h1" THEN
        << Peering(generate_peering_name("cngfw-az-h1", "opencti-s1", DefaultMaxLength), "Connected",
                   TRUE, TRUE, "FullyInSync",
                   [SpokeVNet("opencti-s1").id EXCEPT !.cs = "UPPER"]),
           Peering(generate_peering_name("cngfw-az-h1", "opencti-gone", DefaultMaxLength), "Disconnected",
                   TRUE, TRUE, "FullyInSync", GoneVNet.id),
           Peering("manual-peer", "Disconnected", TRUE, TRUE, "FullyInSync",
                   GoneVNet.id),
           Peering(generate_peering_name("cngfw-az-h1", "opencti-old", DefaultMaxLength), "Connected",
                   TRUE, TRUE, "FullyInSync", OldVNet.id) >>
    ELSE IF vnet_name = "opencti-s1" THEN
        << Peering(generate_peering_name("opencti-s1", "cngfw-az-gone", DefaultMaxLength), "Disconnected",
                   TRUE, TRUE, "FullyInSync",
                   ResourceId("subHub", "rg-hub", "cngfw-az-gone", "Mixed")),
           Peering(generate_peering_name("opencti-s1", "cngfw-az-h1", DefaultMaxLength), "Connected",
                   TRUE, TRUE, "FullyInSync", HubVNet("cngfw-az-h1").id) >>
    ELSE
        << Peering(generate_peering_name("opencti-old", "opencti-gone", DefaultMaxLength), "Disconnected",
                   TRUE, TRUE, "FullyInSync", GoneVNet.id) >>

ClientSubSet == {ClientSubs[i] : i \in 1..Len(ClientSubs)}

SweepVNets ==
    UNION {{ListAll(sub)[j] : j \in 1..Len(ListAll(sub))} : sub \in ClientSubSet}

\* every (network, peering) the provider may hold, and where it is kept
SweepSlots ==
    UNION {{<<v, SweepPeerings(v.name)[i]>> : i \in 1..Len(SweepPeerings(v.name))} :
              v \in SweepVNets}
SlotKey(slot) == PeeringKey(slot[1], slot[2].name)
SweepKeys == {SlotKey(slot) : slot \in SweepSlots}

\* list(client.virtual_network_peerings.list(rg, vnet.name))
ListPeerings(ps, vnet) ==
    LET all == SweepPeerings(vnet.name)
        Exists(q) == Truthy(ps[PeeringKey(vnet, q.name)])
        present == SelectSeq(all, Exists)
    IN [i \in 1..Len(present) |-> Val(ps[PeeringKey(vnet, present[i].name)])]

\* the first k elements a listing yields before it raises (all of them when
\* it does not raise)
Yielded(list, k) == SubSeq(list, 1, k)

\* line 566
valid_region_lower(valid_regions) == {Lower(r) : r \in valid_regions}

\* lines 571-573: what one subscription adds to valid_vnet_ids
ValidIdsOf(vnets, valid_regions) ==
    {Lower(vnets[i].id) : i \in {j \in 1..Len(vnets) :
        Lower(vnets[j].location) \in valid_region_lower(valid_regions)}}

\* lines 569-575, one subscription per step; when the loop is over the pool
\* starts one process_subscription_orphans per client (lines 615-617)
BuildValid ==
    /\ build_pos \in 1..Len(ClientSubs)
    /\ \E k \in 0..Len(ListAll(ClientSubs[build_pos])) :
         valid_vnet_ids' = valid_vnet_ids \cup
             ValidIdsOf(Yielded(ListAll(ClientSubs[build_pos]), k), ValidRegions)
    /\ build_pos' = build_pos + 1
    /\ worker' = IF build_pos = Len(ClientSubs)
                 THEN [sub \in DOMAIN worker |-> [worker[sub] EXCEPT !.pc = "list_vnets"]]
                 ELSE worker
    /\ UNCHANGED <<peerings, report_data, failure_log, pairvars, threadvars, scan, fnvars, run, dry_run, sweep_hist, provider, extvars>>

\* line 583: the listing of the subscription's networks, which may raise
\* after any number of them (line 611 then ends the subscription's sweep)
OrphanListVNets(sub) ==
    /\ worker[sub].pc = "list_vnets"
    /\ \E k \in 0..Len(ListAll(sub)) :
         /\ worker' = [worker EXCEPT ![sub].pc = "vnet",
                                     ![sub].vnets = Yielded(ListAll(sub), k)]
         /\ sweep_hist' = [sweep_hist EXCEPT !.yielded =
                              @ \cup {Yielded(ListAll(sub), k)[i].name : i \in 1..k}]
    /\ UNCHANGED <<peerings, report_data, failure_log, pairvars, threadvars, scan, fnvars, run, dry_run,
                   valid_vnet_ids, build_pos, provider, extvars>>

\* lines 583-592: the next network of the listing
OrphanNextVNet(sub) ==
    /\ worker[sub].pc = "vnet"
    /\ IF worker[sub].vnets = <<>>
       THEN /\ worker' = [worker EXCEPT ![sub].pc = "done"]
            /\ UNCHANGED sweep_hist
       ELSE LET vnet == Head(worker[sub].vnets)
                rest == Tail(worker[sub].vnets)
            IN IF Lower(vnet.location) \notin valid_region_lower(ValidRegions)
               THEN /\ worker' = [worker EXCEPT ![sub].vnets = rest]
                    /\ UNCHANGED sweep_hist
               ELSE \E raised \in BOOLEAN :
                      IF raised
                      THEN /\ worker' = [worker EXCEPT ![sub].vnets = rest]
                           /\ UNCHANGED sweep_hist
                      ELSE /\ worker' = [worker EXCEPT
                                  ![sub].vnets = rest,
                                  ![sub].vnet = Some(vnet),
                                  ![sub].peerings = ListPeerings(peerings, vnet),
                                  ![sub].pc = "peering"]
                           /\ sweep_hist' = [sweep_hist EXCEPT !.listed = @ \cup {vnet.name}]
    /\ UNCHANGED <<peerings, report_data, failure_log, pairvars, threadvars, scan, fnvars, run, dry_run,
                   valid_vnet_ids, build_pos, provider, extvars>>

\* the ownership test of line 595 left out
IsOrphan_any_name(peering, valid_ids) ==
    Lower(peering.remote_virtual_network) \notin valid_ids

\* lines 595-599: is the peering one the sweep deletes?
IsOrphan(peering, valid_ids) ==
    /\ HasOwnershipPrefix(peering.name)
    /\ Lower(peering.remote_virtual_network) \notin valid_ids

\* the sweep deleting in a dry run as well
CallsDelete_always(dry) == TRUE

\* line 603
CallsDelete(dry) == ~dry

\* a record appended for a delete that failed as well
AppendsOrphanRecord_always(deleted) == TRUE

\* line 604: `if self.delete_peering(vnet, peering.name):`
AppendsOrphanRecord(deleted) == deleted

\* lines 605-609
OrphanRecord(vnet, peering, remote_id) ==
    [vnet |-> vnet.name, peering_name |-> peering.name, remote_id |-> remote_id]

\* the error of a failed delete reaching the handler of line 611, which ends
\* the sweep of the subscription
SweepAfterDelete_stopping(w, raised) ==
    IF raised THEN [w EXCEPT !.pc = "done", !.vnets = <<>>, !.vnet = None,
                             !.peerings = <<>>]
    ELSE [w EXCEPT !.peerings = Tail(@)]

\* line 594: the loop goes on to the next peering whatever delete_peering
\* returned (it raises nothing, lines 451-453)
SweepAfterDelete(w, raised) == [w EXCEPT !.peerings = Tail(@)]

\* lines 594-609: the next peering of the network
OrphanPeering(sub) ==
    /\ worker[sub].pc = "peering"
    /\ IF worker[sub].peerings = <<>>
       THEN /\ worker' = [worker EXCEPT ![sub].pc = "vnet", ![sub].vnet = None]
            /\ UNCHANGED <<peerings, report_data, sweep_hist>>
       ELSE LET peering == Head(worker[sub].peerings)
                vnet == Val(worker[sub].vnet)
                key == PeeringKey(vnet, peering.name)
                remote_id == Lower(peering.remote_virtual_network)
            IN IF ~IsOrphan(peering, valid_vnet_ids)
               THEN /\ worker' = [worker EXCEPT ![sub].peerings = Tail(@)]
                    /\ UNCHANGED <<peerings, report_data, sweep_hist>>
               ELSE IF ~CallsDelete(dry_run)
               THEN /\ worker' = [worker EXCEPT ![sub].peerings = Tail(@)]
                    /\ sweep_hist' = [sweep_hist EXCEPT !.candidates = Append(@, key)]
                    /\ UNCHANGED <<peerings, report_data>>
               ELSE \E raised \in BOOLEAN :
                      /\ worker' = [worker EXCEPT ![sub] = SweepAfterDelete(@, raised)]
                      /\ peerings' = ProviderAfterDelete(peerings, key, raised)
                      /\ report_data' =
                           IF AppendsOrphanRecord(delete_peering_returns(raised))
                           THEN [ReportAfterDelete(report_data, raised) EXCEPT
                                   !.deleted_orphans =
                                       Append(@, OrphanRecord(vnet, peering, remote_id))]
                           ELSE ReportAfterDelete(report_data, raised)
                      /\ sweep_hist' = [sweep_hist EXCEPT
                           !.candidates = Append(@, key),
                           !.deletes = Append(@, [key |-> key, ok |-> ~raised,
                                  ret |-> delete_peering_returns(raised)])]
    /\ UNCHANGED <<failure_log, pairvars, threadvars, scan, fnvars, run, dry_run, valid_vnet_ids, build_pos, provider, extvars>>

NoSweepHist == [pre |-> <<>>, yielded |-> {}, listed |-> {}, candidates |-> <<>>,
                deletes |-> <<>>]

IdleWorker == [pc |-> "wait", vnets |-> <<>>, vnet |-> None, peerings |-> <<>>]

(***************************************************************************)
(* create_peering in the threads of the pool, at the grain the threads     *)
(* interleave: nothing in lines 370-435 holds a lock, so a thread may be   *)
(* suspended between the read and the write of                             *)
(*     self.report_data["metrics"]["total_operations"] += 1                *)
(* and between the test, the creation and the append of lines 422-431.     *)
(* Each thread runs the two create_peering calls of lines 498-499.         *)
(***************************************************************************)
IdleThreads == [p \in Pairs |-> [pc |-> "off", side |-> "hub", attempt |-> 0, reg |-> 0]]
NoRaceHist == [created |-> 0, exhausted |-> 0]

\* the return of create_peering: the thread goes on with the spoke side
\* (line 499) or is done
ThreadReturn(t) ==
    IF t.side = "hub" THEN [t EXCEPT !.side = "spoke", !.attempt = 0, !.pc = "remote_call"]
    ELSE [t EXCEPT !.attempt = 0, !.pc = "done"]

\* lines 390-395 and 401-406: one attempt of the remote operation
CreateRemoteCall(p) ==
    /\ thread[p].pc = "remote_call"
    /\ \E ok \in BOOLEAN :
         LET side == thread[p].side
             step == CreateLoopStep(ok, thread[p].attempt)
         IN /\ IF ok
               THEN \E st \in provider.created_states :
                      peerings' = [peerings EXCEPT ![SideKey(p, side)] =
                          Some(Peering(SideName(p, side), st,
                                       PeeringConfig.allow_virtual_network_access,
                                       PeeringConfig.allow_forwarded_traffic,
                                       provider.created_sync, SideTarget(p, side).id))]
               ELSE UNCHANGED peerings
            /\ thread' = [thread EXCEPT ![p] =
                  IF step = "return_true" THEN [@ EXCEPT !.pc = "load_total_operations"]
                  ELSE IF step = "retry" THEN [@ EXCEPT !.attempt = @ + 1]
                  ELSE [@ EXCEPT !.pc = "failure_logger"]]
            /\ race_hist' = [race_hist EXCEPT
                  !.created = IF step = "return_true" THEN @ + 1 ELSE @,
                  !.exhausted = IF step = "exhausted" THEN @ + 1 ELSE @]
    /\ UNCHANGED <<report_data, failure_log, pairvars, sweepvars, scan, fnvars, run, provider, extvars>>

\* line 397, first half: the counter is read
LoadTotalOperations(p) ==
    /\ thread[p].pc = "load_total_operations"
    /\ thread' = [thread EXCEPT ![p].reg = report_data.metrics.total_operations,
                                ![p].pc = "store_total_operations"]
    /\ UNCHANGED <<peerings, report_data, failure_log, pairvars, sweepvars,
                   race_hist, scan, fnvars, run, provider, extvars>>

\* line 397, second half: the value read, plus one, is written; line 399
StoreTotalOperations(p) ==
    /\ thread[p].pc = "store_total_operations"
    /\ report_data' = [report_data EXCEPT !.metrics.total_operations = thread[p].reg + 1]
    /\ thread' = [thread EXCEPT ![p] = ThreadReturn(@)]
    /\ UNCHANGED <<peerings, failure_log, pairvars, sweepvars, race_hist, scan, fnvars, run, provider, extvars>>

\* lines 409-419: the record of the failure log (the logging module
\* serialises its handlers)
WriteFailureLog(p) ==
    /\ thread[p].pc = "failure_logger"
    /\ failure_log' = Append(failure_log,
           FailureLogRecord(SideSource(p, thread[p].side), SideTarget(p, thread[p].side),
                            SideName(p, thread[p].side), PeeringConfig,
                            RemoteError(thread[p].attempt)))
    /\ thread' = [thread EXCEPT ![p].pc = "test_critical_failures"]
    /\ UNCHANGED <<peerings, report_data, pairvars, sweepvars, race_hist, scan, fnvars, run, provider, extvars>>

\* line 422: if "critical_failures" not in self.report_data
TestCriticalFailures(p) ==
    /\ thread[p].pc = "test_critical_failures"
    /\ thread' = [thread EXCEPT ![p].pc =
                     IF report_data.critical_failures.present
                     THEN "append_critical_failure" ELSE "new_critical_failures"]
    /\ UNCHANGED <<peerings, report_data, failure_log, pairvars, sweepvars,
                   race_hist, scan, fnvars, run, provider, extvars>>

\* line 423: self.report_data["critical_failures"] = []
NewCriticalFailures(p) ==
    /\ thread[p].pc = "new_critical_failures"
    /\ report_data' = [report_data EXCEPT
                          !.critical_failures = [present |-> TRUE, items |-> <<>>]]
    /\ thread' = [thread EXCEPT ![p].pc = "append_critical_failure"]
    /\ UNCHANGED <<peerings, failure_log, pairvars, sweepvars, race_hist, scan, fnvars, run, provider, extvars>>

\* lines 425-433: the append, and return False
AppendCriticalFailure(p) ==
    /\ thread[p].pc = "append_critical_failure"
    /\ report_data' = [report_data EXCEPT !.critical_failures.items =
           Append(@, [peering_name |-> SideName(p, thread[p].side),
                      source_vnet |-> SideSource(p, thread[p].side).name,
                      target_vnet |-> SideTarget(p, thread[p].side).name,
                      error |-> RemoteError(thread[p].attempt)])]
    /\ thread' = [thread EXCEPT ![p] = ThreadReturn(@)]
    /\ UNCHANGED <<peerings, failure_log, pairvars, sweepvars, race_hist, scan, fnvars, run, provider, extvars>>

(***************************************************************************)
(* The Topology Scanner: __init__ (lines 89-111), get_vnets_by_criteria    *)
(* (lines 251-310), and the phases of process_region_pair (lines 625-692)  *)
(* under the loop of main (lines 1188-1193).                               *)
(***************************************************************************)
SubIds == {"subHub", "subA", "subX"}

\* a tag value: the words it contains and the letter case it is written in
TagValue(words, cs) == [words |-> words, cs |-> cs]

\* A network as virtual_networks.list_all() yields it.  prefix is the text
\* the name starts with, in the letter case it is written in.
ScanNet(sub, name, prefix, location, tags) ==
    [id |-> ResourceId(sub, "rg", name, "Mixed"), name |-> name, prefix |-> prefix,
     location |-> location, tags |-> tags]

\* what client.virtual_networks.list_all() yields for each subscription
ScanListAll(sub) ==
    IF sub = "subHub" THEN
        << ScanNet("subHub", "cngfw-az-h1", Text("cngfw-az", "lower"),
                   Text("eastus", "Mixed"),
                   <<[key |-> "appname", value |-> TagValue({"hub", "prod"}, "Mixed")]>>),
           ScanNet("subHub", "cngfw-az-fw", Text("cngfw-az", "lower"),
                   Text("eastus", "lower"),
                   <<[key |-> "appname", value |-> TagValue({"firewall"}, "lower")]>>),
           ScanNet("subHub", "opencti-hubside", Text("opencti", "lower"),
                   Text("eastus", "lower"), <<>>) >>
    ELSE IF sub = "subA" THEN
        << ScanNet("subA", "opencti-s1", Text("opencti", "lower"),
                   Text("eastus", "Mixed"), <<>>),
           ScanNet("subA", "OpenCTI-s2", Text("opencti", "Mixed"),
                   Text("eastus", "lower"), <<>>),
           ScanNet("subA", "MISP-s3", Text("misp", "UPPER"),
                   Text("westeurope", "lower"), <<>>) >>
    ELSE
        << ScanNet("subX", "opencti-x", Text("opencti", "lower"),
                   Text("eastus", "lower"), <<>>) >>

\* main, lines 1181-1185, with the regions load_regions reads from the files
RegionPairs ==
    << [hub_regions |-> {Text("eastus", "Mixed")},
        spoke_regions |-> {Text("eastus", "lower")}],
       [hub_regions |-> {Text("westeurope", "lower")},
        spoke_regions |-> {Text("westeurope", "Mixed")}] >>

\* the scan parameters of lines 641-655, with the defaults of self.config.get
ScanParams(role, rp) ==
    IF role = "hub"
    THEN [regions |-> RegionPairs[rp].hub_regions,
          prefixes |-> {Text("cngfw-az", "lower")},
          tag_key |-> Some("appname"),
          tag_value_contains |-> Some(Text("hub", "lower"))]
    ELSE [regions |-> RegionPairs[rp].spoke_regions,
          prefixes |-> {Text("opencti", "lower"), Text("misp", "UPPER")},
          tag_key |-> None,
          tag_value_contains |-> None]

\* tags.get(tag_key, "") for tags = vnet.tags or {}
tags_get(tags, tag_key) ==
    IF \E i \in 1..Len(tags) : tags[i].key = tag_key
    THEN tags[CHOOSE i \in 1..Len(tags) : tags[i].key = tag_key].value
    ELSE TagValue({}, "lower")

\* needle in haystack, for two strings as they are written
Contains(needle, haystack) ==
    needle.cs = haystack.cs /\ needle.text \in haystack.words

\* vnet.name.startswith(pfx)
startswith(name_prefix, pfx) == name_prefix = pfx

\* the region test comparing the location as it is written
PassesFilter_location_as_written(vnet, params) ==
    /\ vnet.location \in {Lower(r) : r \in params.regions}
    /\ \E pfx \in params.prefixes : startswith(vnet.prefix, pfx)
    /\ (Truthy(params.tag_key) /\ Truthy(params.tag_value_contains)) =>
          Contains(Lower(Val(params.tag_value_contains)),
                   Lower(tags_get(vnet.tags, Val(params.tag_key))))

\* lines 275-288: the three filters of scan_subscription
PassesFilter(vnet, params) ==
    /\ Lower(vnet.location) \in {Lower(r) : r \in params.regions}
    /\ \E pfx \in params.prefixes : startswith(vnet.prefix, pfx)
    /\ (Truthy(params.tag_key) /\ Truthy(params.tag_value_contains)) =>
          Contains(Lower(Val(params.tag_value_contains)),
                   Lower(tags_get(vnet.tags, Val(params.tag_key))))

\* line 260: the provided list, or every subscription with a client when the
\* list is empty or None
target_subscriptions(subscription_ids, clients) ==
    IF subscription_ids # <<>>
    THEN {subscription_ids[i] : i \in 1..Len(subscription_ids)}
    ELSE clients

\* lines 104-107
spoke_subscription_ids(all_subscription_ids, spoke_exclude_subscription_ids) ==
    LET Kept(sub_id) == sub_id \notin spoke_exclude_subscription_ids
    IN SelectSeq(all_subscription_ids, Kept)

\* lines 110-111: a client for every needed subscription whose creation worked
create_clients(hub_ids, spoke_ids, failed) ==
    ({hub_ids[i] : i \in 1..Len(hub_ids)} \cup {spoke_ids[i] : i \in 1..Len(spoke_ids)})
        \ failed

SubscriptionIdsOf(role) ==
    IF role = "hub" THEN scan.hub_subscription_ids ELSE scan.spoke_subscription_ids

Targets(role) == target_subscriptions(SubscriptionIdsOf(role), scan.clients)

\* the run of main before it starts
IdleScan == [phase |-> "off"]

NoScanStatus == [role \in {"hub", "spoke"} |-> [sub \in SubIds |-> "none"]]
NoScanYield == [role \in {"hub", "spoke"} |-> [sub \in SubIds |-> 0]]

\* the manager as __init__ leaves it, main about to enter the loop of line 1188
NewScan(spoke_exclude, tenant_listed, failed) ==
    LET hub_ids == <<"subHub">>
        all_ids == IF tenant_listed THEN <<"subHub", "subA", "subX">> ELSE hub_ids
        spoke_ids == spoke_subscription_ids(all_ids, spoke_exclude)
    IN [phase |-> "hub_start", rp |-> 1,
        hub_subscription_ids |-> hub_ids,
        spoke_exclude_subscription_ids |-> spoke_exclude,
        all_subscription_ids |-> all_ids,
        spoke_subscription_ids |-> spoke_ids,
        clients |-> create_clients(hub_ids, spoke_ids, failed),
        status |-> NoScanStatus, yielded |-> NoScanYield,
        vnets |-> [hub |-> <<>>, spoke |-> <<>>],
        pairs |-> {}, outcomes |-> {},
        started |-> {}, raised |-> {},
        submitted |-> {}, completed |-> {}]

\* main, lines 1188-1193: on to the next region pair, the locals of
\* process_region_pair gone
NextRegionPair(sc) ==
    [sc EXCEPT !.rp = @ + 1,
               !.phase = IF sc.rp + 1 > Len(RegionPairs) THEN "finished" ELSE "hub_start",
               !.status = NoScanStatus, !.yielded = NoScanYield,
               !.vnets = [hub |-> <<>>, spoke |-> <<>>],
               !.pairs = {}, !.outcomes = {}]

\* lines 256-260 and 298: the pool of one scan is created; ThreadPoolExecutor
\* raises ValueError for max_workers = min(self.max_workers, 0), which leaves
\* process_region_pair and is caught at line 1191
StartScan(role) ==
    /\ scan.phase = role \o "_start"
    /\ scan' = IF Targets(role) = {}
               THEN [NextRegionPair(scan) EXCEPT
                        !.started = @ \cup {scan.rp}, !.raised = @ \cup {scan.rp}]
               ELSE [scan EXCEPT
                        !.phase = role \o "_scan",
                        !.started = @ \cup {scan.rp},
                        !.status[role] = [sub \in SubIds |->
                            IF sub \in Targets(role) THEN "pending" ELSE "none"]]
    /\ UNCHANGED <<peerings, report_data, failure_log, pairvars, sweepvars, threadvars, fnvars, run, provider, extvars>>

\* the unit's error made to leave the scan
AfterScanUnit_aborting(status) ==
    IF status \in {"raised", "no_client"} THEN "abort" ELSE "continue"

\* lines 292-295 and 302-307: whatever happened in a unit, the scan goes on
\* with the units that remain
AfterScanUnit(status) == "continue"

\* the scan returning with units still running
ScanReturns_at_first_result(status, sub) == TRUE

\* lines 298-310: the with block of the pool and the as_completed loop are
\* left when every unit has completed; sub is the unit completing now
ScanReturns(status, sub) ==
    \A other \in SubIds \ {sub} : status[other] # "pending"

\* the networks a unit hands back: those that passed the filters among the
\* first k the listing yielded (lines 272-290), also when the listing then
\* raised (lines 292-295)
scan_subscription(sub_id, k, params) ==
    LET Pass(vnet) == PassesFilter(vnet, params)
    IN SelectSeq(SubSeq(ScanListAll(sub_id), 1, k), Pass)

\* Lines 262-307: one scan_subscription unit and the vnets.extend of its
\* result; the units complete in any order.  After the last one the scan
\* returns (line 310).
ScanSubscription(role, sub) ==
    /\ scan.phase = role \o "_scan"
    /\ scan.status[role][sub] = "pending"
    /\ \E k \in 0..Len(ScanListAll(sub)) : \E raised \in BOOLEAN :
         /\ k < Len(ScanListAll(sub)) => raised
         /\ LET has_client == sub \in scan.clients
                n == IF has_client THEN k ELSE 0
                st == IF ~has_client THEN "no_client"
                      ELSE IF raised THEN "raised" ELSE "ok"
                after == [scan EXCEPT
                            !.status[role][sub] = st,
                            !.yielded[role][sub] = n,
                            !.vnets[role] = @ \o
                                scan_subscription(sub, n, ScanParams(role, scan.rp))]
                last == ScanReturns(scan.status[role], sub)
            IN /\ has_client \/ (k = Len(ScanListAll(sub)) /\ raised)
               /\ scan' = IF AfterScanUnit(st) = "abort"
                          THEN [NextRegionPair(scan) EXCEPT !.raised = @ \cup {scan.rp}]
                          ELSE IF last
                          THEN [after EXCEPT !.phase =
                                   IF role = "hub" THEN "spoke_start" ELSE "scanned"]
                          ELSE after
               /\ report_data' = [report_data EXCEPT
                                     !.metrics.total_vnets_scanned = @ + n]
    /\ UNCHANGED <<peerings, failure_log, pairvars, sweepvars, threadvars, fnvars, run, provider, extvars>>

\* lines 657-668: without hubs or without spokes the region pair is done;
\* otherwise one unit per hub x spoke pair is submitted
SubmitPairs ==
    /\ scan.phase = "scanned"
    /\ scan' = IF scan.vnets.hub = <<>> \/ scan.vnets.spoke = <<>>
               THEN NextRegionPair(scan)
               ELSE [scan EXCEPT
                        !.phase = "reconcile",
                        !.status = NoScanStatus, !.yielded = NoScanYield,
                        !.pairs = {<<scan.vnets.hub[i].id, scan.vnets.spoke[j].id>> :
                                      i \in 1..Len(scan.vnets.hub),
                                      j \in 1..Len(scan.vnets.spoke)},
                        !.submitted = @ \cup
                            {<<scan.rp, scan.vnets.hub[i].id, scan.vnets.spoke[j].id>> :
                                      i \in 1..Len(scan.vnets.hub),
                                      j \in 1..Len(scan.vnets.spoke)}]
    /\ UNCHANGED <<peerings, report_data, failure_log, pairvars, sweepvars, threadvars, fnvars, run, provider, extvars>>

\* the error of a unit made to leave the loop of line 686
AfterPairUnit_aborting(outcome) ==
    IF outcome = "Connected" THEN "continue" ELSE "abort"

\* lines 686-692: a result, Failed or not, and an exception of the future
\* are logged; the loop goes on
AfterPairUnit(outcome) == "continue"

\* lines 679-692: one create_or_repair_peering_pair unit completes, with a
\* result or with an exception
ReconcilePair(pair) ==
    /\ scan.phase = "reconcile"
    /\ pair \in scan.pairs
    /\ \A o \in scan.outcomes : o.pair # pair
    /\ \E outcome \in {"Connected", "Failed", "exception"} :
         scan' = IF AfterPairUnit(outcome) = "abort"
                 THEN [NextRegionPair(scan) EXCEPT !.raised = @ \cup {scan.rp}]
                 ELSE [scan EXCEPT
                          !.outcomes = @ \cup {[pair |-> pair, outcome |-> outcome]},
                          !.completed = @ \cup {<<scan.rp, pair[1], pair[2]>>}]
    /\ UNCHANGED <<peerings, report_data, failure_log, pairvars, sweepvars, threadvars, fnvars, run, provider, extvars>>

\* line 692 reached: every future was waited for; process_region_pair returns
EndRegionPair ==
    /\ scan.phase = "reconcile"
    /\ \A pair \in scan.pairs : \E o \in scan.outcomes : o.pair = pair
    /\ scan' = NextRegionPair(scan)
    /\ UNCHANGED <<peerings, report_data, failure_log, pairvars, sweepvars, threadvars, fnvars, run, provider, extvars>>

\* main, lines 1196-1202, with the default arguments (cleanup not skipped):
\* the loop over the region pairs is over and the orphan sweep is called
CallCleanupOrphanPeerings ==
    /\ scan.phase = "finished"
    /\ scan' = [scan EXCEPT !.phase = "sweep_called"]
    /\ UNCHANGED <<peerings, report_data, failure_log, pairvars, sweepvars, threadvars, fnvars, run, provider, extvars>>


(***************************************************************************)
(* The pool of process_region_pair (lines 670-683) over the networks the   *)
(* scans returned, seen from the provider: which peering record each unit  *)
(* addresses, for reading (lines 462-463) and for deleting and creating    *)
(* (lines 489-499).                                                        *)
(***************************************************************************)
\* the hubs and the spokes a region pair may hold: two spokes of different
\* subscriptions have the same display name
UnitHubs == {HubVNet("cngfw-az-h1"), HubVNet("cngfw-az-h2")}
UnitSpokes ==
    { SpokeVNet("opencti-s1"),
      VNet("subX", "rg-x", "opencti-s1", Text("eastus", "lower"), "Mixed"),
      SpokeVNet("opencti-s2") }

\* lines 458-459 and 353-359: the record a side of the pair is addressed by
UnitKey(hub, spoke, side) ==
    IF side = "hub"
    THEN PeeringKey(hub, generate_peering_name(hub.name, spoke.name, DefaultMaxLength))
    ELSE PeeringKey(spoke, generate_peering_name(spoke.name, hub.name, DefaultMaxLength))

\* lines 670-683: one unit per hub x spoke pair is submitted
NewUnits(hub_vnets, spoke_vnets) ==
    [phase |-> "pool", hub_vnets |-> hub_vnets, spoke_vnets |-> spoke_vnets,
     pc |-> [u \in hub_vnets \X spoke_vnets |-> "get_hub"],
     touched |-> [u \in hub_vnets \X spoke_vnets |-> {}]]

\* lines 462-463: get_existing_peering of one side
UnitGet(u, side) ==
    /\ units.phase = "pool"
    /\ u \in units.hub_vnets \X units.spoke_vnets
    /\ units.pc[u] = "get_" \o side
    /\ units' = [units EXCEPT
                    !.pc[u] = IF side = "hub" THEN "get_spoke" ELSE "repair",
                    !.touched[u] = @ \cup
                        {[op |-> "read", key |-> UnitKey(u[1], u[2], side)]}]
    /\ UNCHANGED <<peerings, report_data, failure_log, pairvars, sweepvars, threadvars,
                   scan, fnvars, run, provider, stress>>

\* lines 466-499: the pair is found healthy and nothing is issued, or the
\* peerings of both sides are deleted and created
UnitRepair(u) ==
    /\ units.phase = "pool"
    /\ u \in units.hub_vnets \X units.spoke_vnets
    /\ units.pc[u] = "repair"
    /\ \E healthy \in BOOLEAN :
          units' = [units EXCEPT
                       !.pc[u] = "done",
                       !.touched[u] = IF healthy THEN @
                                      ELSE @ \cup {[op |-> "write",
                                                    key |-> UnitKey(u[1], u[2], side)] :
                                                       side \in Sides}]
    /\ UNCHANGED <<peerings, report_data, failure_log, pairvars, sweepvars, threadvars,
                   scan, fnvars, run, provider, stress>>


(***************************************************************************)
(* WebPerformanceTester.stress_test, src/perf.py lines 534-559: one call,  *)
(* one iteration of the loop over the steps per step of the model.         *)
(***************************************************************************)
\* max(a, b)
max(a, b) == IF a >= b THEN a ELSE b

\* line 539
users_per_step(max_users) == max(1, max_users \div 10)

\* line 540
steps(max_users) == max_users \div users_per_step(max_users)

\* lines 536-540: the call has computed its locals, the loop is about to start
NewStress(max_users) ==
    [phase |-> "loop", max_users |-> max_users,
     users_per_step |-> users_per_step(max_users),
     steps |-> steps(max_users),
     step |-> 1, issued |-> <<>>, results |-> 0]

\* Lines 542-555, one step: current_users requests are submitted to a pool
\* of that width, each concurrent_request returns one PerformanceMetrics
\* (lines 474-503), and the results of the step are added to results.
StressStep ==
    /\ stress.phase = "loop"
    /\ stress.step <= stress.steps
    /\ LET current_users == stress.step * stress.users_per_step
       IN stress' = [stress EXCEPT !.step = @ + 1,
                                   !.issued = Append(@, current_users),
                                   !.results = @ + current_users]
    /\ UNCHANGED <<peerings, report_data, failure_log, pairvars, sweepvars, threadvars,
                   scan, fnvars, run, provider, units>>

\* lines 542 and 558-559: range(1, steps + 1) is exhausted, results is returned
StressReturn ==
    /\ stress.phase = "loop"
    /\ stress.step > stress.steps
    /\ stress' = [stress EXCEPT !.phase = "returned"]
    /\ UNCHANGED <<peerings, report_data, failure_log, pairvars, sweepvars, threadvars,
                   scan, fnvars, run, provider, units>>


(***************************************************************************)
(* generate_peering_name (lines 312-332) and is_healthy_peering (lines     *)
(* 334-351) called on their own: the arguments are drawn from bounded sets *)
(* and the value returned is kept with them.                               *)
(***************************************************************************)
IdleUnits == [phase |-> "off"]
IdleStress == [phase |-> "off"]
IdleNaming == [prev |-> None, last |-> None]
IdleHealth == [called |-> FALSE, peering |-> None, returned |-> FALSE]

\* one call with the default max_length; the call before it is kept
GeneratePeeringName ==
    /\ \E vnet_a_name \in VNetNames : \E vnet_b_name \in VNetNames :
          naming' = [prev |-> naming.last,
                     last |-> Some([vnet_a_name |-> vnet_a_name,
                                    vnet_b_name |-> vnet_b_name,
                                    returned |-> generate_peering_name(
                                        vnet_a_name, vnet_b_name, DefaultMaxLength)])]
    /\ UNCHANGED <<peerings, report_data, failure_log, pairvars, sweepvars, threadvars,
                   scan, health, run, provider, extvars>>

\* the limits generate_peering_name is called with on its own: the least one
\* that holds the prefix, the separator and the hash suffix, the one below
\* it, the default, and odd and even ones
MaxLengths == {18, 19, 20, 40, 41, 79, 80}

\* one call with a max_length argument
GeneratePeeringNameWithLimit ==
    /\ \E vnet_a_name \in VNetNames : \E vnet_b_name \in VNetNames :
       \E max_length \in MaxLengths :
          naming' = [prev |-> None,
                     last |-> Some([vnet_a_name |-> vnet_a_name,
                                    vnet_b_name |-> vnet_b_name,
                                    max_length |-> max_length,
                                    returned |-> generate_peering_name(
                                        vnet_a_name, vnet_b_name, max_length)])]
    /\ UNCHANGED <<peerings, report_data, failure_log, pairvars, sweepvars, threadvars,
                   scan, health, run, provider, extvars>>

\* the values of peering_state the provider reports
PeeringStates == {"Initiated", "Connected", "Disconnected"}

\* the arguments of is_healthy_peering: no peering, or a peering object with
\* any state, flags and sync level
HealthArguments ==
    {None} \cup
    { Some([Peering("cngfw_dnd-hub-to-opencti-s1", state, access, forwarded, sync,
                    SpokeVNet("opencti-s1").id)
               EXCEPT !.allow_gateway_transit = transit, !.use_remote_gateways = remote]) :
        state \in PeeringStates, access \in BOOLEAN, forwarded \in BOOLEAN,
        sync \in SyncLevels, transit \in BOOLEAN, remote \in BOOLEAN }

IsHealthyPeering ==
    /\ \E peering \in HealthArguments :
          health' = [called |-> TRUE, peering |-> peering,
                     returned |-> is_healthy_peering(peering)]
    /\ UNCHANGED <<peerings, report_data, failure_log, pairvars, sweepvars, threadvars,
                   scan, naming, run, provider, extvars>>


(***************************************************************************)
(* main, lines 1187-1224, at the grain of its statements.  The scans of    *)
(* process_region_pair are a single step here; the pairs it submits run    *)
(* the actions of create_or_repair_peering_pair.  An exception that no     *)
(* except clause catches ends the process.                                 *)
(***************************************************************************)
IdleRun == [phase |-> "off"]

\* the methods the class body of VNetPeeringManager defines (lines 86-1009)
ManagerMethods ==
    { "__init__", "_setup_logging", "_load_config", "_create_clients",
      "_get_all_tenant_subscriptions", "load_regions", "extract_resource_group",
      "get_vnets_by_criteria", "generate_peering_name", "is_healthy_peering",
      "get_existing_peering", "create_peering", "delete_peering",
      "create_or_repair_peering_pair", "cleanup_failure_log", "process_region_pair",
      "generate_html_report", "export_json_report" }

\* the names bound in the body of cleanup_failure_log (lines 540-623) before
\* line 562 reads dry_run: its parameter and the locals of lines 543 and 559;
\* the module binds no dry_run either
CleanupFailureLogNames == {"self", "has_failures", "e"}

\* the types of the values of report_data["metrics"] when export_json_report
\* hands them to json.dump (lines 118-124, 1205, 987), and the types
\* json.dump encodes
MetricsTypes ==
    [total_vnets_scanned |-> "int", total_peerings_checked |-> "int",
     total_operations |-> "int", start_time |-> "datetime", end_time |-> "datetime"]
JsonTypes == {"dict", "list", "str", "int", "float", "bool", "NoneType"}

\* the status the interpreter ends the process with
ExitStatusOf(exception) == IF Truthy(exception) THEN 1 ELSE 0

Exit(r, exception) ==
    [r EXCEPT !.phase = "exited", !.exception = exception,
              !.exit_status = Some(ExitStatusOf(exception))]

\* the hub x spoke pairs the scans of a region pair find when they find any
ScannedPairs(rp) ==
    IF rp = 1 THEN {<<"cngfw-az-h1", "opencti-s1">>}
    ELSE {<<"cngfw-az-h2", "opencti-s1">>}

\* main after startup (lines 1150-1185): args parsed, manager constructed
NewRun(dry, skip_cleanup, export_json, at_start) ==
    [phase |-> "loop", rp |-> 1,
     args |-> [dry_run |-> dry, skip_cleanup |-> skip_cleanup,
               export_json |-> export_json],
     submitted |-> {}, provider_at_start |-> at_start,
     html_report |-> FALSE, json_report |-> FALSE,
     failure_log_file |-> TRUE, failure_log_cleanup |-> "not_called",
     exception |-> None, exit_status |-> None]

\* Lines 1188-1193 and 625-683: process_region_pair is called for the next
\* region pair.  It raises (caught at line 1191), returns for want of
\* regions, hubs or spokes, or submits one create_or_repair_peering_pair per
\* pair; dry_run is not among its arguments.
ProcessRegionPair ==
    /\ run.phase = "loop"
    /\ run.rp <= Len(RegionPairs)
    /\ \E scanned \in {"raised", "nothing", "pairs"} :
         IF scanned = "pairs"
         THEN /\ run' = [run EXCEPT !.phase = "pairs", !.submitted = ScannedPairs(run.rp)]
              /\ pc' = [p \in Pairs |-> IF p \in ScannedPairs(run.rp) THEN "idle" ELSE pc[p]]
         ELSE /\ run' = [run EXCEPT !.rp = @ + 1]
              /\ UNCHANGED pc
    /\ UNCHANGED <<peerings, report_data, failure_log, existing, attempt, success, result,
                   invocations, hist, sweepvars, threadvars, scan, fnvars, provider, extvars>>

\* lines 686-692 and the end of the with block: every future has completed
PairsCompleted ==
    /\ run.phase = "pairs"
    /\ \A p \in run.submitted : pc[p] = "idle" /\ invocations[p] = MaxInvocations
    /\ run' = [run EXCEPT !.phase = "loop", !.rp = @ + 1, !.submitted = {}]
    /\ pc' = [p \in Pairs |-> "off"]
    /\ UNCHANGED <<peerings, report_data, failure_log, existing, attempt, success, result,
                   invocations, hist, sweepvars, threadvars, scan, fnvars, provider, extvars>>

\* Lines 1196-1202 with cleanup not skipped: load_regions raises nothing
\* (lines 218-238); the attribute cleanup_orphan_peerings is looked up on
\* the manager, which has no such method, and the AttributeError leaves main.
CleanupOrphanPeerings ==
    /\ run.phase = "loop"
    /\ run.rp > Len(RegionPairs)
    /\ ~run.args.skip_cleanup
    /\ "cleanup_orphan_peerings" \notin ManagerMethods
    /\ run' = Exit(run, Some("AttributeError"))
    /\ UNCHANGED <<peerings, report_data, failure_log, pairvars, sweepvars, threadvars,
                   scan, fnvars, provider, extvars>>

\* lines 1196 and 1205-1210 with cleanup skipped: the HTML report is written
GenerateHtmlReport ==
    /\ run.phase = "loop"
    /\ run.rp > Len(RegionPairs)
    /\ run.args.skip_cleanup
    /\ run' = [run EXCEPT !.phase = IF run.args.export_json THEN "export"
                                    ELSE "failure_log",
                          !.html_report = TRUE]
    /\ UNCHANGED <<peerings, report_data, failure_log, pairvars, sweepvars, threadvars,
                   scan, fnvars, provider, extvars>>

\* lines 1212-1214 and 975-1009: json.dump raises TypeError for a value it
\* cannot encode, before the file holds the report
ExportJsonReport ==
    /\ run.phase = "export"
    /\ LET unencodable == \E k \in DOMAIN MetricsTypes : MetricsTypes[k] \notin JsonTypes
       IN run' = IF unencodable THEN Exit(run, Some("TypeError"))
                 ELSE [run EXCEPT !.phase = "failure_log", !.json_report = TRUE]
    /\ UNCHANGED <<peerings, report_data, failure_log, pairvars, sweepvars, threadvars,
                   scan, fnvars, provider, extvars>>

\* the attributes of the logging.FileHandler that line 154 creates and line
\* 159 makes handlers[0] of the failure logger; a FileHandler keeps no buffer
FileHandlerAttributes ==
    {"baseFilename", "mode", "encoding", "errors", "delay", "stream", "formatter",
     "level", "filters", "lock", "name"}

\* Lines 542-560, the try block of cleanup_failure_log.  A non-empty
\* critical_failures list makes has_failures true without the second operand
\* being evaluated and the file is kept (line 558).  Otherwise any(...) is
\* given a generator whose iterable, handlers[0].buffer, is evaluated at
\* once: the AttributeError is caught at line 559 and nothing is removed.
\* Were there a buffer, no record of the failure logger says "Deletion
\* Failed" (lines 165 and 409) and lines 551-556 would remove the file.
cleanup_failure_log_try(rd) ==
    IF rd.critical_failures.present /\ rd.critical_failures.items # <<>> THEN "kept"
    ELSE IF "buffer" \notin FileHandlerAttributes THEN "raised"
    ELSE "removed"

\* Lines 1217-1224 and 540-562: cleanup_failure_log catches what its try
\* block raises; the statements that follow the try block read dry_run.  If
\* the call returns, main prints the summary and ends.
CleanupFailureLog ==
    /\ run.phase = "failure_log"
    /\ LET outcome == cleanup_failure_log_try(report_data)
           after == [run EXCEPT !.failure_log_cleanup = outcome,
                                !.failure_log_file = (outcome # "removed")]
       IN run' = Exit(after, IF "dry_run" \in CleanupFailureLogNames THEN None
                             ELSE Some("NameError"))
    /\ UNCHANGED <<peerings, report_data, failure_log, pairvars, sweepvars, threadvars,
                   scan, fnvars, provider, extvars>>


(***************************************************************************)
(* The reconciliation of one pair, invoked repeatedly.                     *)
(***************************************************************************)
\* the pair the worker pool is given
ActivePair == <<"cngfw-az-h1", "opencti-s1">>

Init ==
    /\ peerings \in [PairKeys -> {None} \cup UNION {InitialPeerings(p, side) :
                                                      p \in Pairs, side \in Sides}]
    /\ \A p \in Pairs : \A side \in Sides :
          peerings[SideKey(p, side)] \in
              (IF p = ActivePair THEN InitialPeerings(p, side) ELSE {None})
    /\ report_data = InitReport
    /\ failure_log = <<>>
    /\ pc = [p \in Pairs |-> IF p = ActivePair THEN "idle" ELSE "off"]
    /\ existing = [p \in Pairs |-> [hub |-> None, spoke |-> None]]
    /\ attempt = [p \in Pairs |-> 0]
    /\ success = [p \in Pairs |-> [hub |-> FALSE, spoke |-> FALSE]]
    /\ result = [p \in Pairs |-> None]
    /\ invocations = [p \in Pairs |-> 0]
    /\ hist = [p \in Pairs |-> NoHist]
    /\ dry_run = FALSE
    /\ valid_vnet_ids = {}
    /\ build_pos = 0
    /\ worker = [sub \in ClientSubSet |-> IdleWorker]
    /\ sweep_hist = NoSweepHist
    /\ thread = IdleThreads
    /\ race_hist = NoRaceHist
    /\ scan = IdleScan
    /\ naming = IdleNaming /\ health = IdleHealth
    /\ run = IdleRun
    /\ provider = DefaultProvider
    /\ units = IdleUnits /\ stress = IdleStress

Next ==
    \E p \in Pairs :
        \/ Invoke(p)
        \/ GetExistingHub(p)
        \/ GetExistingSpoke(p)
        \/ Decide(p)
        \/ DeleteHub(p)
        \/ DeleteSpoke(p)
        \/ CreateHub(p)
        \/ CreateSpoke(p)
        \/ Record(p)
        \/ Return(p)

Spec == Init /\ [][Next]_vars

(***************************************************************************)
(* The orphan sweep of one run, from the call at line 1202 on.  The        *)
(* provider holds any subset of the peerings of SweepPeerings.             *)
(***************************************************************************)
InitSweep ==
    /\ \E present \in SUBSET SweepSlots :
          peerings = [k \in SweepKeys |->
                        IF \E slot \in present : SlotKey(slot) = k
                        THEN Some((CHOOSE slot \in present : SlotKey(slot) = k)[2])
                        ELSE None]
    /\ report_data = InitReport
    /\ failure_log = <<>>
    /\ pc = [p \in Pairs |-> "off"]
    /\ existing = [p \in Pairs |-> [hub |-> None, spoke |-> None]]
    /\ attempt = [p \in Pairs |-> 0]
    /\ success = [p \in Pairs |-> [hub |-> FALSE, spoke |-> FALSE]]
    /\ result = [p \in Pairs |-> None]
    /\ invocations = [p \in Pairs |-> 0]
    /\ hist = [p \in Pairs |-> NoHist]
    /\ dry_run \in BOOLEAN
    /\ valid_vnet_ids = {}
    /\ build_pos = 1
    /\ worker = [sub \in ClientSubSet |-> IdleWorker]
    /\ sweep_hist = [NoSweepHist EXCEPT !.pre = peerings]
    /\ thread = IdleThreads
    /\ race_hist = NoRaceHist
    /\ scan = IdleScan
    /\ naming = IdleNaming /\ health = IdleHealth
    /\ run = IdleRun
    /\ provider = DefaultProvider
    /\ units = IdleUnits /\ stress = IdleStress

NextSweep ==
    \/ BuildValid
    \/ \E sub \in ClientSubSet :
          \/ OrphanListVNets(sub)
          \/ OrphanNextVNet(sub)
          \/ OrphanPeering(sub)

SpecSweep == InitSweep /\ [][NextSweep]_vars


(***************************************************************************)
(* process_region_pair, lines 666-692: the pool runs one                   *)
(* create_or_repair_peering_pair per hub x spoke pair, in parallel.        *)
(***************************************************************************)
\* The provider when the pool starts: the pair of the first hub is healthy,
\* the pair of the second hub has no peering yet.
PoolPeerings(p, side) ==
    IF p = ActivePair
    THEN Some(Peering(SideName(p, side), "Connected", TRUE, TRUE, "FullyInSync",
                      SideTarget(p, side).id))
    ELSE None

InitPool ==
    /\ peerings = [k \in PairKeys |->
                     LET ps == CHOOSE ps \in Pairs \X Sides : SideKey(ps[1], ps[2]) = k
                     IN PoolPeerings(ps[1], ps[2])]
    /\ report_data = InitReport
    /\ failure_log = <<>>
    /\ pc = [p \in Pairs |-> "idle"]
    /\ existing = [p \in Pairs |-> [hub |-> None, spoke |-> None]]
    /\ attempt = [p \in Pairs |-> 0]
    /\ success = [p \in Pairs |-> [hub |-> FALSE, spoke |-> FALSE]]
    /\ result = [p \in Pairs |-> None]
    /\ invocations = [p \in Pairs |-> MaxInvocations - 1]
    /\ hist = [p \in Pairs |-> NoHist]
    /\ dry_run = FALSE
    /\ valid_vnet_ids = {}
    /\ build_pos = 0
    /\ worker = [sub \in ClientSubSet |-> IdleWorker]
    /\ sweep_hist = NoSweepHist
    /\ thread = IdleThreads
    /\ race_hist = NoRaceHist
    /\ scan = IdleScan
    /\ naming = IdleNaming /\ health = IdleHealth
    /\ run = IdleRun
    /\ provider = DefaultProvider
    /\ units = IdleUnits /\ stress = IdleStress

SpecPool == InitPool /\ [][Next]_vars

(***************************************************************************)
(* The threads of one pool, each in its create_peering calls; no pair has  *)
(* a peering yet.                                                          *)
(***************************************************************************)
InitThreads ==
    /\ peerings = [k \in PairKeys |-> None]
    /\ report_data = InitReport
    /\ failure_log = <<>>
    /\ pc = [p \in Pairs |-> "off"]
    /\ existing = [p \in Pairs |-> [hub |-> None, spoke |-> None]]
    /\ attempt = [p \in Pairs |-> 0]
    /\ success = [p \in Pairs |-> [hub |-> FALSE, spoke |-> FALSE]]
    /\ result = [p \in Pairs |-> None]
    /\ invocations = [p \in Pairs |-> 0]
    /\ hist = [p \in Pairs |-> NoHist]
    /\ dry_run = FALSE
    /\ valid_vnet_ids = {}
    /\ build_pos = 0
    /\ worker = [sub \in ClientSubSet |-> IdleWorker]
    /\ sweep_hist = NoSweepHist
    /\ thread = [p \in Pairs |-> [IdleThreads[p] EXCEPT !.pc = "remote_call"]]
    /\ race_hist = NoRaceHist
    /\ scan = IdleScan
    /\ naming = IdleNaming /\ health = IdleHealth
    /\ run = IdleRun
    /\ provider = DefaultProvider
    /\ units = IdleUnits /\ stress = IdleStress

NextThreads ==
    \E p \in Pairs :
        \/ CreateRemoteCall(p)
        \/ LoadTotalOperations(p)
        \/ StoreTotalOperations(p)
        \/ WriteFailureLog(p)
        \/ TestCriticalFailures(p)
        \/ NewCriticalFailures(p)
        \/ AppendCriticalFailure(p)

SpecThreads == InitThreads /\ [][NextThreads]_vars

(***************************************************************************)
(* The reconciliation of one pair whose names the provider already holds   *)
(* records under: each record points at the pair's other network or at     *)
(* another network.                                                        *)
(***************************************************************************)
\* another network than the one the side's peering is meant for: a spoke of
\* the same display name in another subscription, another hub
OtherTarget(p, side) ==
    IF side = "hub"
    THEN VNet("subX", "rg-x", spoke_vnet(p).name, Text("eastus", "lower"), "Mixed")
    ELSE HubVNet("cngfw-az-h2")

\* the records client.virtual_network_peerings.get may answer with
RemotePeerings(p, side) ==
    LET n == SideName(p, side)
    IN { None,
         Some(Peering(n, "Connected", TRUE, TRUE, "FullyInSync", SideTarget(p, side).id)),
         Some(Peering(n, "Connected", TRUE, TRUE, "FullyInSync", OtherTarget(p, side).id)),
         Some(Peering(n, "Connected", TRUE, TRUE, "NoAttr", OtherTarget(p, side).id)),
         Some(Peering(n, "Connected", TRUE, FALSE, "FullyInSync", SideTarget(p, side).id)),
         Some(Peering(n, "Disconnected", TRUE, TRUE, "FullyInSync",
                      OtherTarget(p, side).id)) }

InitRemote ==
    /\ peerings \in [PairKeys -> {None} \cup UNION {RemotePeerings(p, side) :
                                                      p \in Pairs, side \in Sides}]
    /\ \A p \in Pairs : \A side \in Sides :
          peerings[SideKey(p, side)] \in
              (IF p = ActivePair THEN RemotePeerings(p, side) ELSE {None})
    /\ report_data = InitReport
    /\ failure_log = <<>>
    /\ pc = [p \in Pairs |-> IF p = ActivePair THEN "idle" ELSE "off"]
    /\ existing = [p \in Pairs |-> [hub |-> None, spoke |-> None]]
    /\ attempt = [p \in Pairs |-> 0]
    /\ success = [p \in Pairs |-> [hub |-> FALSE, spoke |-> FALSE]]
    /\ result = [p \in Pairs |-> None]
    /\ invocations = [p \in Pairs |-> MaxInvocations - 1]
    /\ hist = [p \in Pairs |-> NoHist]
    /\ dry_run = FALSE
    /\ valid_vnet_ids = {}
    /\ build_pos = 0
    /\ worker = [sub \in ClientSubSet |-> IdleWorker]
    /\ sweep_hist = NoSweepHist
    /\ thread = IdleThreads
    /\ race_hist = NoRaceHist
    /\ scan = IdleScan
    /\ naming = IdleNaming /\ health = IdleHealth
    /\ run = IdleRun
    /\ provider = DefaultProvider
    /\ units = IdleUnits /\ stress = IdleStress

SpecRemote == InitRemote /\ [][Next]_vars

(***************************************************************************)
(* One call of stress_test, for every max_users from 1 to MaxUsers.        *)
(***************************************************************************)
InitStress ==
    /\ peerings = [k \in PairKeys |-> None]
    /\ report_data = InitReport
    /\ failure_log = <<>>
    /\ pc = [p \in Pairs |-> "off"]
    /\ existing = [p \in Pairs |-> [hub |-> None, spoke |-> None]]
    /\ attempt = [p \in Pairs |-> 0]
    /\ success = [p \in Pairs |-> [hub |-> FALSE, spoke |-> FALSE]]
    /\ result = [p \in Pairs |-> None]
    /\ invocations = [p \in Pairs |-> 0]
    /\ hist = [p \in Pairs |-> NoHist]
    /\ dry_run = FALSE
    /\ valid_vnet_ids = {}
    /\ build_pos = 0
    /\ worker = [sub \in ClientSubSet |-> IdleWorker]
    /\ sweep_hist = NoSweepHist
    /\ thread = IdleThreads
    /\ race_hist = NoRaceHist
    /\ scan = IdleScan
    /\ naming = IdleNaming /\ health = IdleHealth
    /\ run = IdleRun
    /\ provider = DefaultProvider
    /\ units = IdleUnits
    /\ \E max_users \in 1..MaxUsers : stress = NewStress(max_users)

NextStress ==
    \/ StressStep
    \/ StressReturn

SpecStress == InitStress /\ [][NextStress]_vars

(***************************************************************************)
(* One pool of pair units, for every non-empty set of hubs and of spokes.  *)
(***************************************************************************)
InitUnits ==
    /\ peerings = [k \in PairKeys |-> None]
    /\ report_data = InitReport
    /\ failure_log = <<>>
    /\ pc = [p \in Pairs |-> "off"]
    /\ existing = [p \in Pairs |-> [hub |-> None, spoke |-> None]]
    /\ attempt = [p \in Pairs |-> 0]
    /\ success = [p \in Pairs |-> [hub |-> FALSE, spoke |-> FALSE]]
    /\ result = [p \in Pairs |-> None]
    /\ invocations = [p \in Pairs |-> 0]
    /\ hist = [p \in Pairs |-> NoHist]
    /\ dry_run = FALSE
    /\ valid_vnet_ids = {}
    /\ build_pos = 0
    /\ worker = [sub \in ClientSubSet |-> IdleWorker]
    /\ sweep_hist = NoSweepHist
    /\ thread = IdleThreads
    /\ race_hist = NoRaceHist
    /\ scan = IdleScan
    /\ naming = IdleNaming /\ health = IdleHealth
    /\ run = IdleRun
    /\ provider = DefaultProvider
    /\ stress = IdleStress
    /\ \E hub_vnets \in SUBSET UnitHubs \ {{}} : \E spoke_vnets \in SUBSET UnitSpokes \ {{}} :
          units = NewUnits(hub_vnets, spoke_vnets)

NextUnits ==
    \E u \in UnitHubs \X UnitSpokes :
        \/ UnitGet(u, "hub")
        \/ UnitGet(u, "spoke")
        \/ UnitRepair(u)

SpecUnits == InitUnits /\ [][NextUnits]_vars

(***************************************************************************)
(* One run of main from the construction of the manager to the end of the  *)
(* loop over the region pairs, for every exclusion list, with the tenant   *)
(* listing working or not, and with client creation failing for some       *)
(* subscriptions.                                                          *)
(***************************************************************************)
FailedClients == {{}, {"subA"}, {"subHub"}}

InitScan ==
    /\ peerings = [k \in PairKeys |-> None]
    /\ report_data = InitReport
    /\ failure_log = <<>>
    /\ pc = [p \in Pairs |-> "off"]
    /\ existing = [p \in Pairs |-> [hub |-> None, spoke |-> None]]
    /\ attempt = [p \in Pairs |-> 0]
    /\ success = [p \in Pairs |-> [hub |-> FALSE, spoke |-> FALSE]]
    /\ result = [p \in Pairs |-> None]
    /\ invocations = [p \in Pairs |-> 0]
    /\ hist = [p \in Pairs |-> NoHist]
    /\ dry_run = FALSE
    /\ valid_vnet_ids = {}
    /\ build_pos = 0
    /\ worker = [sub \in ClientSubSet |-> IdleWorker]
    /\ sweep_hist = NoSweepHist
    /\ thread = IdleThreads
    /\ race_hist = NoRaceHist
    /\ naming = IdleNaming /\ health = IdleHealth
    /\ run = IdleRun
    /\ provider = DefaultProvider
    /\ units = IdleUnits /\ stress = IdleStress
    /\ \E spoke_exclude \in SUBSET SubIds : \E tenant_listed \in BOOLEAN :
       \E failed \in FailedClients :
          scan = NewScan(spoke_exclude, tenant_listed, failed)

NextScan ==
    \/ \E role \in {"hub", "spoke"} :
          \/ StartScan(role)
          \/ \E sub \in SubIds : ScanSubscription(role, sub)
    \/ SubmitPairs
    \/ \E pair \in scan.pairs : ReconcilePair(pair)
    \/ EndRegionPair
    \/ CallCleanupOrphanPeerings

SpecScan == InitScan /\ [][NextScan]_vars


(***************************************************************************)
(* The two pure methods, each under calls with every argument of its set.  *)
(***************************************************************************)
InitCalls ==
    /\ peerings = [k \in PairKeys |-> None]
    /\ report_data = InitReport
    /\ failure_log = <<>>
    /\ pc = [p \in Pairs |-> "off"]
    /\ existing = [p \in Pairs |-> [hub |-> None, spoke |-> None]]
    /\ attempt = [p \in Pairs |-> 0]
    /\ success = [p \in Pairs |-> [hub |-> FALSE, spoke |-> FALSE]]
    /\ result = [p \in Pairs |-> None]
    /\ invocations = [p \in Pairs |-> 0]
    /\ hist = [p \in Pairs |-> NoHist]
    /\ dry_run = FALSE
    /\ valid_vnet_ids = {}
    /\ build_pos = 0
    /\ worker = [sub \in ClientSubSet |-> IdleWorker]
    /\ sweep_hist = NoSweepHist
    /\ thread = IdleThreads
    /\ race_hist = NoRaceHist
    /\ scan = IdleScan
    /\ naming = IdleNaming /\ health = IdleHealth
    /\ run = IdleRun
    /\ provider = DefaultProvider
    /\ units = IdleUnits /\ stress = IdleStress

NextNames == GeneratePeeringName

SpecNames == InitCalls /\ [][NextNames]_vars

NextHealth == IsHealthyPeering

SpecHealth == InitCalls /\ [][NextHealth]_vars

\* generate_peering_name called with every limit of MaxLengths
NextLimits == GeneratePeeringNameWithLimit

SpecLimits == InitCalls /\ [][NextLimits]_vars


(***************************************************************************)
(* One run of main from the loop over the region pairs to the end of the   *)
(* process.  Each pair starts healthy or without peerings.                 *)
(***************************************************************************)
InitRun ==
    /\ \E healthy \in SUBSET Pairs :
          peerings = [k \in PairKeys |->
                        LET ps == CHOOSE ps \in Pairs \X Sides : SideKey(ps[1], ps[2]) = k
                        IN IF ps[1] \in healthy
                           THEN Some(Peering(SideName(ps[1], ps[2]), "Connected", TRUE, TRUE,
                                             "FullyInSync", SideTarget(ps[1], ps[2]).id))
                           ELSE None]
    /\ report_data = InitReport
    /\ failure_log = <<>>
    /\ pc = [p \in Pairs |-> "off"]
    /\ existing = [p \in Pairs |-> [hub |-> None, spoke |-> None]]
    /\ attempt = [p \in Pairs |-> 0]
    /\ success = [p \in Pairs |-> [hub |-> FALSE, spoke |-> FALSE]]
    /\ result = [p \in Pairs |-> None]
    /\ invocations = [p \in Pairs |-> MaxInvocations - 1]
    /\ hist = [p \in Pairs |-> NoHist]
    /\ dry_run = FALSE
    /\ valid_vnet_ids = {}
    /\ build_pos = 0
    /\ worker = [sub \in ClientSubSet |-> IdleWorker]
    /\ sweep_hist = NoSweepHist
    /\ thread = IdleThreads
    /\ race_hist = NoRaceHist
    /\ scan = IdleScan
    /\ naming = IdleNaming /\ health = IdleHealth
    /\ \E dry \in BOOLEAN : \E skip_cleanup \in BOOLEAN : \E export_json \in BOOLEAN :
          run = NewRun(dry, skip_cleanup, export_json, peerings)
    /\ provider = DefaultProvider
    /\ units = IdleUnits /\ stress = IdleStress

NextRun ==
    \/ ProcessRegionPair
    \/ PairsCompleted
    \/ CleanupOrphanPeerings
    \/ GenerateHtmlReport
    \/ ExportJsonReport
    \/ CleanupFailureLog
    \/ Next

SpecRun == InitRun /\ [][NextRun]_vars

\* every statement of main that can run does run in the end
SpecRunFair == SpecRun /\ WF_vars(NextRun)


(***************************************************************************)
(* Repeated invocations on one pair against a provider that reports every  *)
(* peering it created as Connected, with a sync level of FullyInSync or    *)
(* with no sync level value.  A step that can be taken is taken in the     *)
(* end.                                                                    *)
(***************************************************************************)
ConvergeProviders ==
    {[created_states |-> {"Connected"}, created_sync |-> sync] :
        sync \in {"FullyInSync", "NoneValue"}}

\* what the provider may hold for a side when the first invocation starts
ConvergePeerings(p, side, sync) ==
    { None,
      Some(Peering(SideName(p, side), "Connected", TRUE, TRUE, sync, SideTarget(p, side).id)),
      Some(Peering(SideName(p, side), "Disconnected", TRUE, TRUE, sync,
                   SideTarget(p, side).id)) }

InitConverge ==
    /\ provider \in ConvergeProviders
    /\ units = IdleUnits /\ stress = IdleStress
    /\ peerings \in [PairKeys -> {None} \cup UNION {ConvergePeerings(p, side, provider.created_sync) :
                                                      p \in Pairs, side \in Sides}]
    /\ \A p \in Pairs : \A side \in Sides :
          peerings[SideKey(p, side)] \in
              (IF p = ActivePair THEN ConvergePeerings(p, side, provider.created_sync)
               ELSE {None})
    /\ report_data = InitReport
    /\ failure_log = <<>>
    /\ pc = [p \in Pairs |-> IF p = ActivePair THEN "idle" ELSE "off"]
    /\ existing = [p \in Pairs |-> [hub |-> None, spoke |-> None]]
    /\ attempt = [p \in Pairs |-> 0]
    /\ success = [p \in Pairs |-> [hub |-> FALSE, spoke |-> FALSE]]
    /\ result = [p \in Pairs |-> None]
    /\ invocations = [p \in Pairs |-> 0]
    /\ hist = [p \in Pairs |-> NoHist]
    /\ dry_run = FALSE
    /\ valid_vnet_ids = {}
    /\ build_pos = 0
    /\ worker = [sub \in ClientSubSet |-> IdleWorker]
    /\ sweep_hist = NoSweepHist
    /\ thread = IdleThreads
    /\ race_hist = NoRaceHist
    /\ scan = IdleScan
    /\ naming = IdleNaming /\ health = IdleHealth
    /\ run = IdleRun

SpecConverge == InitConverge /\ [][Next]_vars /\ WF_vars(Next)

(***************************************************************************)
(* Vocabulary of the properties.                                           *)
(***************************************************************************)
\* the invocation on p has started and has not handed its result back yet
InCall(p) == pc[p] \notin {"idle", "off"}
Returned(p) == pc[p] = "return"

\* the remote calls of one kind the current invocation issued for one side
CallsOf(p, op, side) ==
    LET Test(c) == c.op = op /\ c.side = side
    IN SelectSeq(hist[p].calls, Test)

MutatingCalls(p) ==
    LET Test(c) == c.op \in {"create", "delete"}
    IN SelectSeq(hist[p].calls, Test)

\* positions in the log of the current invocation
CallIndex(p, op) == {i \in 1..Len(hist[p].calls) : hist[p].calls[i].op = op}

\* healthy as section 4.3 of the specification words it
HealthyRecord(o) ==
    /\ Truthy(o)
    /\ Val(o).peering_state = "Connected"
    /\ Val(o).allow_virtual_network_access
    /\ Val(o).allow_forwarded_traffic
    /\ Val(o).peering_sync_level \in {"NoAttr", "FullyInSync"}

\* both sides were healthy at the provider when the invocation started
PairWasHealthy(p) == HealthyRecord(hist[p].pre.hub) /\ HealthyRecord(hist[p].pre.spoke)

\* both reads of the invocation were answered by the provider
ReadsAnswered(p) ==
    /\ Len(CallsOf(p, "get", "hub")) = 1 /\ CallsOf(p, "get", "hub")[1].ok
    /\ Len(CallsOf(p, "get", "spoke")) = 1 /\ CallsOf(p, "get", "spoke")[1].ok

\* create_peering was called for the side and has returned
CreateReturned(p, side) ==
    /\ Len(CallsOf(p, "create", side)) >= 1
    /\ IF side = "hub" THEN pc[p] \in {"create_spoke", "record", "return"}
       ELSE pc[p] \in {"record", "return"}

\* the create_peering call of the side has returned and no attempt succeeded
CreateFailed(p, side) ==
    /\ CreateReturned(p, side)
    /\ \A i \in 1..Len(CallsOf(p, "create", side)) : ~CallsOf(p, "create", side)[i].ok

CreateSucceeded(p, side) ==
    /\ CreateReturned(p, side)
    /\ \E i \in 1..Len(CallsOf(p, "create", side)) : CallsOf(p, "create", side)[i].ok

(***************************************************************************)
(* C1.  Idempotence: an invocation on a pair whose two sides are healthy   *)
(* at the provider issues no create and no delete and leaves both records  *)
(* as they were.                                                           *)
(***************************************************************************)
C1_Idempotence ==
    \A p \in Pairs :
        InCall(p) /\ PairWasHealthy(p) =>
            /\ MutatingCalls(p) = <<>>
            /\ peerings[SideKey(p, "hub")] = hist[p].pre.hub
            /\ peerings[SideKey(p, "spoke")] = hist[p].pre.spoke

\* The same, for the invocations whose two reads the provider answered.
C1_IdempotenceWhenRead ==
    \A p \in Pairs :
        InCall(p) /\ PairWasHealthy(p) /\ ReadsAnswered(p) =>
            /\ MutatingCalls(p) = <<>>
            /\ peerings[SideKey(p, "hub")] = hist[p].pre.hub
            /\ peerings[SideKey(p, "spoke")] = hist[p].pre.spoke

(***************************************************************************)
(* C2.  When a side is not healthy, every side whose peering exists at the *)
(* provider gets a delete, and every delete comes before the first create. *)
(***************************************************************************)
DeletesBeforeCreates(p) ==
    \A i \in CallIndex(p, "delete") : \A j \in CallIndex(p, "create") : i < j

C2_DeleteExistingBeforeCreate ==
    \A p \in Pairs :
        pc[p] \in {"create_hub", "create_spoke", "record", "return"}
        /\ ~PairWasHealthy(p) =>
            /\ \A side \in Sides :
                  Truthy(hist[p].pre[side]) => Len(CallsOf(p, "delete", side)) >= 1
            /\ DeletesBeforeCreates(p)

\* The same, for the invocations whose two reads the provider answered.
C2_DeleteExistingWhenRead ==
    \A p \in Pairs :
        pc[p] \in {"create_hub", "create_spoke", "record", "return"}
        /\ ~PairWasHealthy(p) /\ ReadsAnswered(p) =>
            /\ \A side \in Sides :
                  Truthy(hist[p].pre[side]) => Len(CallsOf(p, "delete", side)) >= 1
            /\ DeletesBeforeCreates(p)

(***************************************************************************)
(* C3.  When both creates succeed the result is Connected, with action     *)
(* Repaired if a side existed before the run and Created if none did.      *)
(***************************************************************************)
C3_ActionOfSuccess ==
    \A p \in Pairs :
        Returned(p) /\ CreateSucceeded(p, "hub") /\ CreateSucceeded(p, "spoke") =>
            /\ Val(result[p]).status = "Connected"
            /\ Val(result[p]).action =
                  IF Truthy(hist[p].pre.hub) \/ Truthy(hist[p].pre.spoke)
                  THEN "Repaired" ELSE "Created"

\* The same, for the invocations whose two reads the provider answered.
C3_ActionOfSuccessWhenRead ==
    \A p \in Pairs :
        Returned(p) /\ CreateSucceeded(p, "hub") /\ CreateSucceeded(p, "spoke")
        /\ ReadsAnswered(p) =>
            /\ Val(result[p]).status = "Connected"
            /\ Val(result[p]).action =
                  IF Truthy(hist[p].pre.hub) \/ Truthy(hist[p].pre.spoke)
                  THEN "Repaired" ELSE "Created"

(***************************************************************************)
(* C4.  When a create fails the result is Failed/Failed, one entry is      *)
(* appended to the failed stream, and the error text marks exactly the     *)
(* failed direction(s) as Failed and the other as OK.                      *)
(***************************************************************************)
DirectionText(p, side) == IF CreateFailed(p, side) THEN "Failed" ELSE "OK"

C4_FailedResult ==
    \A p \in Pairs :
        Returned(p) /\ (CreateFailed(p, "hub") \/ CreateFailed(p, "spoke")) =>
            LET msg == <<"Hub->Spoke: ", DirectionText(p, "hub"),
                         ", Spoke->Hub: ", DirectionText(p, "spoke")>>
                failed == report_data.failed_peerings
            IN /\ Val(result[p]).status = "Failed"
               /\ Val(result[p]).action = "Failed"
               /\ Val(result[p]).error = msg
               /\ Len(failed) = hist[p].failed0 + 1
               /\ failed[Len(failed)] = [hub_vnet |-> hub_vnet(p).name,
                                         spoke_vnet |-> spoke_vnet(p).name,
                                         error |-> msg]

C4_Witness ==
    \E p \in Pairs :
        Returned(p) /\ CreateSucceeded(p, "hub") /\ CreateFailed(p, "spoke")


(***************************************************************************)
(* C5.  As claimed: a pair the reconciler finds BothHealthy (the two       *)
(* peerings it read are healthy) gets action No Change and status Healthy, *)
(* and every status is one of Healthy, Connected, Failed.                  *)
(***************************************************************************)
\* the classification BothHealthy: both peerings the invocation read are healthy
BothHealthy(p) == HealthyRecord(existing[p].hub) /\ HealthyRecord(existing[p].spoke)

C5_HealthyStatus ==
    \A p \in Pairs :
        Returned(p) =>
            /\ Val(result[p]).status \in {"Healthy", "Connected", "Failed"}
            /\ BothHealthy(p) =>
                  /\ Val(result[p]).action = "No Change"
                  /\ Val(result[p]).status = "Healthy"

\* C5, amended: a pair the reconciler finds BothHealthy gets action No Change
\* and status Connected; every status is Connected or Failed.
C5_NoChangeResult ==
    \A p \in Pairs :
        Returned(p) =>
            /\ Val(result[p]).status \in {"Connected", "Failed"}
            /\ BothHealthy(p) =>
                  /\ Val(result[p]).action = "No Change"
                  /\ Val(result[p]).status = "Connected"

C5_Witness ==
    \E p \in Pairs :
        /\ Returned(p) /\ BothHealthy(p)
        /\ Val(result[p]).action = "No Change"
        /\ Val(result[p]).status = "Connected"

(***************************************************************************)
(* C6.  create_peering stops at its first successful attempt and returns   *)
(* success; after fail, fail, success there is no fourth attempt and no    *)
(* critical-failure record.                                                *)
(***************************************************************************)
ReportCriticalCount(peering_name) ==
    Cardinality({i \in 1..Len(report_data.critical_failures.items) :
                    report_data.critical_failures.items[i].peering_name = peering_name})

FailFailSuccess(p, side) ==
    LET A == CallsOf(p, "create", side)
    IN Len(A) >= 3 /\ ~A[1].ok /\ ~A[2].ok /\ A[3].ok

C6_StopsAtFirstSuccess ==
    \A p \in Pairs : \A side \in Sides :
        InCall(p) =>
            LET A == CallsOf(p, "create", side)
            IN /\ \A i \in 1..Len(A) : A[i].ok => i = Len(A)
               /\ (Len(A) >= 1 /\ A[Len(A)].ok) =>
                     CreateReturned(p, side) /\ success[p][side]
               /\ FailFailSuccess(p, side) =>
                     /\ Len(A) = 3
                     /\ success[p][side]
                     /\ CriticalCount(failure_log, SideName(p, side)) = hist[p].cf0[side]
                     /\ ReportCriticalCount(SideName(p, side)) = hist[p].cf0[side]

C6_Witness ==
    \E p \in Pairs : \E side \in Sides :
        FailFailSuccess(p, side) /\ CreateReturned(p, side) /\ success[p][side]

(***************************************************************************)
(* C7.  A create_peering call whose attempts all fail makes exactly three  *)
(* attempts, returns failure, and leaves exactly one critical-failure      *)
(* record, holding both network ids and the error of the last attempt.     *)
(***************************************************************************)
LastCritical(peering_name) ==
    LET I == {i \in 1..Len(failure_log) : failure_log[i].peering_name = peering_name}
    IN failure_log[CHOOSE i \in I : \A j \in I : j <= i]

C7_ExhaustedCreate ==
    \A p \in Pairs : \A side \in Sides :
        /\ InCall(p) => Len(CallsOf(p, "create", side)) <= 3
        /\ CreateFailed(p, side) =>
              /\ Len(CallsOf(p, "create", side)) = 3
              /\ ~success[p][side]
              /\ CriticalCount(failure_log, SideName(p, side)) = hist[p].cf0[side] + 1
              /\ ReportCriticalCount(SideName(p, side)) = hist[p].cf0[side] + 1
              /\ LastCritical(SideName(p, side)).source_id = SideSource(p, side).id
              /\ LastCritical(SideName(p, side)).target_id = SideTarget(p, side).id
              /\ LastCritical(SideName(p, side)).final_error = RemoteError(2)

C7_Witness ==
    \E p \in Pairs :
        /\ Returned(p) /\ CreateFailed(p, "hub")
        /\ CriticalCount(failure_log, SideName(p, "hub")) = hist[p].cf0.hub + 1

(***************************************************************************)
(* C8.  As claimed: a delete whose remote operation fails on its first     *)
(* attempt is attempted again.                                             *)
(***************************************************************************)
DeletePhaseOver(p) == pc[p] \in {"create_hub", "create_spoke", "record", "return"}

FailedDeleteStep(p) ==
    /\ pc[p] \in {"delete_hub", "delete_spoke"}
    /\ Len(hist'[p].calls) = Len(hist[p].calls) + 1
    /\ ~hist'[p].calls[Len(hist'[p].calls)].ok

C9_FailedDeleteFrame ==
    [][\A p \in Pairs :
          FailedDeleteStep(p) =>
              /\ hist'[p].calls[Len(hist'[p].calls)].ret = FALSE
              /\ pc'[p] \in {"delete_spoke", "create_hub"}
              /\ failure_log' = failure_log
              /\ report_data'.critical_failures = report_data.critical_failures
              /\ peerings' = peerings]_vars

C9_Witness ==
    \E p \in Pairs :
        LET n == Len(hist[p].calls)
        IN /\ n >= 1
           /\ hist[p].calls[n].op = "delete"
           /\ ~hist[p].calls[n].ok
           /\ ~hist[p].calls[n].ret


(***************************************************************************)
(* Vocabulary of the properties of the orphan sweep.                       *)
(***************************************************************************)
SweepDone ==
    /\ build_pos > Len(ClientSubs)
    /\ \A sub \in ClientSubSet : worker[sub].pc = "done"

SweepDeleteCount(key) ==
    Cardinality({i \in 1..Len(sweep_hist.deletes) : sweep_hist.deletes[i].key = key})

SweepCandidateCount(key) ==
    Cardinality({i \in 1..Len(sweep_hist.candidates) : sweep_hist.candidates[i] = key})

\* the peering was at the provider when the sweep started, on a network of a
\* valid region, bears the ownership prefix, and its remote network is not in
\* the valid-network set
OrphanAtStart(slot) ==
    /\ Truthy(sweep_hist.pre[SlotKey(slot)])
    /\ Lower(slot[1].location) \in {Lower(r) : r \in ValidRegions}
    /\ Len(slot[2].name) >= 9 /\ SubSeq(slot[2].name, 1, 9) = "cngfw_dnd"
    /\ Lower(slot[2].remote_virtual_network) \notin valid_vnet_ids

\* the sweep's listing of the subscription yielded the network, and its
\* listing of the network's peerings did not raise
SweepListed(slot) ==
    slot[1].name \in sweep_hist.yielded /\ slot[1].name \in sweep_hist.listed

(***************************************************************************)
(* C10.  As claimed: every orphan peering on a network of a valid region   *)
(* gets exactly one delete in non-dry-run mode, and none in dry-run mode,  *)
(* where it is still reported as a candidate.                              *)
(***************************************************************************)
C10_EveryOrphanDeletedOnce ==
    SweepDone =>
        \A slot \in SweepSlots :
            OrphanAtStart(slot) =>
                /\ SweepDeleteCount(SlotKey(slot)) = IF dry_run THEN 0 ELSE 1
                /\ SweepCandidateCount(SlotKey(slot)) = 1

\* C10, amended: the same for every orphan peering the sweep gets to list;
\* no peering gets more than one delete, and a dry run issues none.
C10_ListedOrphanDeletedOnce ==
    /\ dry_run => sweep_hist.deletes = <<>>
    /\ \A key \in SweepKeys : SweepDeleteCount(key) <= 1
    /\ SweepDone =>
          \A slot \in SweepSlots :
              OrphanAtStart(slot) /\ SweepListed(slot) =>
                  /\ SweepDeleteCount(SlotKey(slot)) = IF dry_run THEN 0 ELSE 1
                  /\ SweepCandidateCount(SlotKey(slot)) = 1

C10_Witness ==
    /\ SweepDone
    /\ ~dry_run
    /\ \E slot \in SweepSlots :
          /\ OrphanAtStart(slot) /\ SweepListed(slot)
          /\ SweepDeleteCount(SlotKey(slot)) = 1

(***************************************************************************)
(* C11.  The sweep never issues a delete for a peering whose name does not *)
(* bear the ownership prefix, whatever its remote network is; such a       *)
(* peering stays at the provider as it was.                                *)
(***************************************************************************)
BearsPrefix(peering_name) ==
    Len(peering_name) >= 9 /\ SubSeq(peering_name, 1, 9) = "cngfw_dnd"

C11_ForeignNeverDeleted ==
    /\ \A i \in 1..Len(sweep_hist.deletes) : BearsPrefix(sweep_hist.deletes[i].key[4])
    /\ \A slot \in SweepSlots :
          ~BearsPrefix(slot[2].name) =>
              peerings[SlotKey(slot)] = sweep_hist.pre[SlotKey(slot)]

\* a finished sweep that listed a foreign peering whose remote network is
\* not valid, deleted an orphan next to it, and left the foreign one
C11_Witness ==
    /\ SweepDone /\ ~dry_run
    /\ sweep_hist.deletes # <<>>
    /\ \E slot \in SweepSlots :
          /\ ~BearsPrefix(slot[2].name)
          /\ Truthy(sweep_hist.pre[SlotKey(slot)])
          /\ SweepListed(slot)
          /\ Lower(slot[2].remote_virtual_network) \notin valid_vnet_ids
          /\ Truthy(peerings[SlotKey(slot)])

(***************************************************************************)
(* C12.  The deleted-orphans stream holds exactly one record per delete    *)
(* the sweep issued that succeeded, and none for a delete that failed, was *)
(* not issued, or was a dry-run candidate.                                 *)
(***************************************************************************)
ConfirmedDeletes(key) ==
    Cardinality({i \in 1..Len(sweep_hist.deletes) :
                    sweep_hist.deletes[i].key = key /\ sweep_hist.deletes[i].ok})

OrphanRecordsOf(slot) ==
    Cardinality({i \in 1..Len(report_data.deleted_orphans) :
                    /\ report_data.deleted_orphans[i].vnet = slot[1].name
                    /\ report_data.deleted_orphans[i].peering_name = slot[2].name
                    /\ report_data.deleted_orphans[i].remote_id =
                           Lower(slot[2].remote_virtual_network)})

TotalConfirmedDeletes ==
    Cardinality({i \in 1..Len(sweep_hist.deletes) : sweep_hist.deletes[i].ok})

C12_OneRecordPerConfirmedDelete ==
    /\ Len(report_data.deleted_orphans) = TotalConfirmedDeletes
    /\ \A slot \in SweepSlots : OrphanRecordsOf(slot) = ConfirmedDeletes(SlotKey(slot))
    /\ dry_run => report_data.deleted_orphans = <<>>

\* a finished sweep with one delete that succeeded and one that failed
C12_Witness ==
    /\ SweepDone
    /\ \E i, j \in 1..Len(sweep_hist.deletes) :
          sweep_hist.deletes[i].ok /\ ~sweep_hist.deletes[j].ok
    /\ Len(report_data.deleted_orphans) >= 1

(***************************************************************************)
(* C13.  A failed delete does not stop the sweep: in a sweep where a       *)
(* delete failed, every other orphan the sweep lists, in the same          *)
(* subscription and in the others, still gets its delete.                  *)
(***************************************************************************)
SomeSweepDeleteFailed ==
    \E i \in 1..Len(sweep_hist.deletes) : ~sweep_hist.deletes[i].ok

C13_FailedDeleteDoesNotStopSweep ==
    SweepDone /\ ~dry_run /\ SomeSweepDeleteFailed =>
        \A slot \in SweepSlots :
            OrphanAtStart(slot) /\ SweepListed(slot) =>
                SweepDeleteCount(SlotKey(slot)) = 1

\* the first delete of the sweep failed, and deletes were issued after it in
\* the same subscription and in another one
C13_Witness ==
    /\ SweepDone /\ ~dry_run
    /\ Len(sweep_hist.deletes) >= 3
    /\ ~sweep_hist.deletes[1].ok
    /\ \E i, j \in 2..Len(sweep_hist.deletes) :
          /\ sweep_hist.deletes[i].key[1] = sweep_hist.deletes[1].key[1]
          /\ sweep_hist.deletes[j].key[1] # sweep_hist.deletes[1].key[1]

(***************************************************************************)
(* C14.  For the hub set and the spoke set of one region pair, the pool    *)
(* leaves exactly |H| x |S| results in the all-pairs stream, exactly one   *)
(* per (hub, spoke) combination, whatever the interleaving and the order   *)
(* of completion of the workers.                                           *)
(***************************************************************************)
\* every worker of the pool has handed its result back
PoolDone == \A p \in Pairs : pc[p] = "idle" /\ invocations[p] = MaxInvocations

ResultsOf(p) ==
    {i \in 1..Len(report_data.all_peerings) :
        /\ report_data.all_peerings[i].hub_vnet = p[1]
        /\ report_data.all_peerings[i].spoke_vnet = p[2]}

C14_OneResultPerPair ==
    /\ \A p \in Pairs : Cardinality(ResultsOf(p)) <= 1
    /\ PoolDone =>
          /\ Len(report_data.all_peerings) = Cardinality(HubNames) * Cardinality(SpokeNames)
          /\ \A p \in Pairs : Cardinality(ResultsOf(p)) = 1

\* the pool is done, the pair submitted last completed first, and the two
\* results are a failure and a pair left as it was
C14_Witness ==
    /\ PoolDone
    /\ Len(report_data.all_peerings) = 2
    /\ report_data.all_peerings[1].hub_vnet = "cngfw-az-h2"
    /\ report_data.all_peerings[1].action = "Failed"
    /\ report_data.all_peerings[2].action = "No Change"

(***************************************************************************)
(* C15.  Counters lose no update: when all threads of the pool have        *)
(* finished, the mutating-operations counter equals the number of remote   *)
(* operations that succeeded.                                              *)
(***************************************************************************)
ThreadsDone == \A p \in Pairs : thread[p].pc = "done"

C15_NoLostCounterUpdate ==
    ThreadsDone => report_data.metrics.total_operations = race_hist.created

(***************************************************************************)
(* C16.  When create_peering calls of parallel threads exhaust their       *)
(* retries, the report ends with one critical-failure record per exhausted *)
(* call, also when the stream did not exist before.                        *)
(***************************************************************************)
C16_OneRecordPerExhaustedCreate ==
    ThreadsDone => Len(report_data.critical_failures.items) = race_hist.exhausted

(***************************************************************************)
(* Vocabulary of the properties of the scans.                              *)
(***************************************************************************)
Roles == {"hub", "spoke"}

\* get_vnets_by_criteria has returned for the role, in the current region pair
ScanOver(role) ==
    IF role = "hub" THEN scan.phase \in {"spoke_start", "spoke_scan", "scanned"}
    ELSE scan.phase = "scanned"

Returned_vnets(sc, role) == {sc.vnets[role][i] : i \in 1..Len(sc.vnets[role])}

\* the criteria as the specification words them: location equal to a region
\* ignoring case, name starting with a prefix, and, with a tag predicate, the
\* value of the tag key containing the substring ignoring case
MeetsCriteria(vnet, role, rp) ==
    LET params == ScanParams(role, rp)
    IN /\ \E r \in params.regions : r.text = vnet.location.text
       /\ vnet.prefix \in params.prefixes
       /\ role = "hub" =>
             \E i \in 1..Len(vnet.tags) :
                /\ vnet.tags[i].key = "appname"
                /\ "hub" \in vnet.tags[i].value.words

GivenSubscriptions(sc, role) ==
    LET ids == IF role = "hub" THEN sc.hub_subscription_ids ELSE sc.spoke_subscription_ids
    IN {ids[i] : i \in 1..Len(ids)}

\* the subscriptions a scan lists: the given ones that have a client, or every
\* subscription with a client when no subscription is given
ScannedSubscriptions(sc, role) ==
    IF GivenSubscriptions(sc, role) # {}
    THEN GivenSubscriptions(sc, role) \cap sc.clients
    ELSE sc.clients

NetworksOf(subs) ==
    UNION {{ScanListAll(sub)[i] : i \in 1..Len(ScanListAll(sub))} : sub \in subs}

YieldedNetworks(sc, role) ==
    UNION {{ScanListAll(sub)[i] : i \in 1..sc.yielded[role][sub]} :
              sub \in ScannedSubscriptions(sc, role)}

Contributed(sc) ==
    \A role \in Roles : \A sub \in SubIds :
        sc.status[role][sub] = "ok" =>
            \A i \in 1..Len(ScanListAll(sub)) :
                MeetsCriteria(ScanListAll(sub)[i], role, sc.rp) =>
                    ScanListAll(sub)[i] \in Returned_vnets(sc, role)

NoUnitLeft(sc, role) == \A sub \in SubIds : sc.status[role][sub] # "pending"

C18_SiblingsNotAborted ==
    [][/\ \A role \in Roles :
             scan.phase = role \o "_scan" =>
                /\ scan'.rp = scan.rp
                /\ scan'.phase # scan.phase => NoUnitLeft(scan', role)
                /\ Contributed(scan')
       /\ scan.phase = "reconcile" =>
             /\ scan'.phase = "reconcile" => scan'.rp = scan.rp /\ scan'.pairs = scan.pairs
             /\ scan'.phase # "reconcile" =>
                   \A pair \in scan.pairs : \E o \in scan.outcomes : o.pair = pair
       /\ scan.phase # "off" =>
             /\ scan'.raised # scan.raised =>
                   /\ scan'.rp = scan.rp + 1
                   /\ scan'.phase = IF scan.rp < Len(RegionPairs)
                                    THEN "hub_start" ELSE "finished"
             /\ scan'.phase = "finished" => scan'.started = 1..Len(RegionPairs)]_vars

\* the spoke scan is over: one subscription had no client or its listing
\* raised, another was listed to its end and its network is in the result
C18_Witness ==
    /\ scan.phase = "scanned"
    /\ \E failing, sibling \in SubIds :
          /\ scan.status.spoke[failing] \in {"raised", "no_client"}
          /\ scan.status.spoke[sibling] = "ok"
          /\ \E i \in 1..Len(scan.vnets.spoke) :
                SubscriptionOf(scan.vnets.spoke[i].id) = sibling

(***************************************************************************)
(* C19.  A subscription whose listing raised, at any point, contributes no *)
(* network to the result of the scan.                                      *)
(***************************************************************************)
C19_RaisedContributesNothing ==
    \A role \in Roles :
        ScanOver(role) =>
            \A sub \in SubIds :
                scan.status[role][sub] = "raised" =>
                    \A i \in 1..Len(scan.vnets[role]) :
                        SubscriptionOf(scan.vnets[role][i].id) # sub

(***************************************************************************)
(* C20.  No network of an excluded subscription is in the hub set or the   *)
(* spoke set handed to the Pair Reconciler.                                *)
(***************************************************************************)
C20_ExcludedNeverHandedOver ==
    scan.phase = "reconcile" =>
        \A pair \in scan.pairs :
            /\ SubscriptionOf(pair[1]) \notin scan.spoke_exclude_subscription_ids
            /\ SubscriptionOf(pair[2]) \notin scan.spoke_exclude_subscription_ids

(***************************************************************************)
(* Vocabulary of the properties of generate_peering_name.                  *)
(***************************************************************************)
\* the calls made so far that the state remembers; the later one comes last
NamingCalls == naming.prev \o naming.last

\* the call was given two names that are each cut to their first 30
\* characters
BothNamesCut(c) == Len(c.vnet_a_name) > 30 /\ Len(c.vnet_b_name) > 30

(***************************************************************************)
(* C21.  Whatever the lengths of the two network names, the name returned  *)
(* under the default limit has at most 79 characters.                      *)
(***************************************************************************)
C21_NameWithinLimit ==
    \A i \in 1..Len(NamingCalls) : Len(NamingCalls[i].returned) <= 79

\* reached: a call with two names of 100 characters, answered by a name of
\* exactly 79
C21_Witness ==
    /\ Truthy(naming.last)
    /\ Len(Val(naming.last).vnet_a_name) = 100
    /\ Len(Val(naming.last).vnet_b_name) = 100
    /\ Len(Val(naming.last).returned) = 79

(***************************************************************************)
(* C22.  For two different network names a and b, the name generated for   *)
(* (a, b) differs from the name generated for (b, a).                      *)
(***************************************************************************)
C22_DirectionDistinguished ==
    \A i, j \in 1..Len(NamingCalls) :
       ( /\ NamingCalls[i].vnet_a_name # NamingCalls[i].vnet_b_name
         /\ NamingCalls[j].vnet_a_name = NamingCalls[i].vnet_b_name
         /\ NamingCalls[j].vnet_b_name = NamingCalls[i].vnet_a_name )
       => NamingCalls[i].returned # NamingCalls[j].returned

(***************************************************************************)
(* C23.  Two different pairs of names, all four names cut and cut to the   *)
(* same texts, get different generated names.                              *)
(***************************************************************************)
C23_HashDisambiguates ==
    \A i, j \in 1..Len(NamingCalls) :
       ( /\ <<NamingCalls[i].vnet_a_name, NamingCalls[i].vnet_b_name>>
               # <<NamingCalls[j].vnet_a_name, NamingCalls[j].vnet_b_name>>
         /\ BothNamesCut(NamingCalls[i]) /\ BothNamesCut(NamingCalls[j])
         /\ SubSeq(NamingCalls[i].vnet_a_name, 1, 30)
               = SubSeq(NamingCalls[j].vnet_a_name, 1, 30)
         /\ SubSeq(NamingCalls[i].vnet_b_name, 1, 30)
               = SubSeq(NamingCalls[j].vnet_b_name, 1, 30) )
       => NamingCalls[i].returned # NamingCalls[j].returned

(***************************************************************************)
(* C24.  is_healthy_peering answers false for no peering; for a peering    *)
(* without the sync-level attribute it answers true exactly when the state *)
(* is Connected and allow_virtual_network_access and                       *)
(* allow_forwarded_traffic are both true.                                  *)
(***************************************************************************)
C24_HealthWithoutSyncLevel ==
    health.called =>
       /\ ~Truthy(health.peering) => health.returned = FALSE
       /\ ( Truthy(health.peering)
            /\ Val(health.peering).peering_sync_level = "NoAttr" )
          => ( health.returned = TRUE
               <=> ( /\ Val(health.peering).peering_state = "Connected"
                     /\ Val(health.peering).allow_virtual_network_access = TRUE
                     /\ Val(health.peering).allow_forwarded_traffic = TRUE ) )

\* reached: Connected, access allowed, forwarded traffic not allowed, no
\* sync-level attribute, answered false
C24_Witness ==
    /\ health.called /\ Truthy(health.peering)
    /\ Val(health.peering).peering_sync_level = "NoAttr"
    /\ Val(health.peering).peering_state = "Connected"
    /\ Val(health.peering).allow_virtual_network_access
    /\ ~Val(health.peering).allow_forwarded_traffic
    /\ health.returned = FALSE

(***************************************************************************)
(* C25.  A peering that is Connected with both flags true is healthy when  *)
(* it carries no sync-level value, be the attribute missing or without a   *)
(* value; it is unhealthy only for a sync level that is present and is not *)
(* FullyInSync.                                                            *)
(***************************************************************************)
C25_NoSyncValueIsHealthy ==
    ( /\ health.called /\ Truthy(health.peering)
      /\ Val(health.peering).peering_state = "Connected"
      /\ Val(health.peering).allow_virtual_network_access
      /\ Val(health.peering).allow_forwarded_traffic )
    => ( health.returned = FALSE
         <=> Val(health.peering).peering_sync_level
                \notin {"NoAttr", "NoneValue", "FullyInSync"} )

(***************************************************************************)
(* Vocabulary of the properties of a run of main.                          *)
(***************************************************************************)
RunOver == run.phase = "exited"

\* a create_peering call of the run exhausted its retries
RunHadCriticalFailure == Len(report_data.critical_failures.items) > 0

(***************************************************************************)
(* C26.  The exit status of a run reflects its critical failures: failure  *)
(* when a create exhausted its retries, success when none did.             *)
(***************************************************************************)
C26_ExitStatusReflectsCriticalFailures ==
    RunOver => ( Val(run.exit_status) # 0 <=> RunHadCriticalFailure )

(***************************************************************************)
(* C27.  Every run that got past startup produces the final report in the  *)
(* end, cleanup phase enabled or not.                                      *)
(***************************************************************************)
C27_ReportEventuallyProduced == <>(run.html_report)

(***************************************************************************)
(* C28.  A run started with the dry-run flag issues no create and no       *)
(* delete, and leaves the provider as it found it.                         *)
(***************************************************************************)
C28_DryRunChangesNothing ==
    run.args.dry_run =>
       /\ \A p \in Pairs : MutatingCalls(p) = <<>>
       /\ peerings = run.provider_at_start

(***************************************************************************)
(* C29.  Convergence: in a behaviour whose remote calls all succeed, the   *)
(* repeated invocations on the pair reach a state in which both sides are  *)
(* healthy, an invocation returns No Change, and every invocation after it *)
(* returns No Change too.                                                  *)
(***************************************************************************)
\* no remote call of the invocation under way has failed
CallsSucceed ==
    \A p \in Pairs : \A i \in 1..Len(hist[p].calls) : hist[p].calls[i].ok

\* Connected with both flags true, the sync level FullyInSync or without value
HealthyAtProvider(p, side) ==
    /\ Truthy(peerings[SideKey(p, side)])
    /\ Val(peerings[SideKey(p, side)]).peering_state = "Connected"
    /\ Val(peerings[SideKey(p, side)]).allow_virtual_network_access
    /\ Val(peerings[SideKey(p, side)]).allow_forwarded_traffic
    /\ Val(peerings[SideKey(p, side)]).peering_sync_level
          \in {"NoAttr", "NoneValue", "FullyInSync"}

ReturnsNoChange(p) == pc[p] = "return" /\ Val(result[p]).action = "No Change"

PreviousResult(p) == report_data.all_peerings[invocations[p] - 1]

\* the create of the side succeeded in the invocation before, the create of
\* the other side did not, and the side was the only one at the provider
\* when the invocation under way started
OnlySideCreated(p, side) ==
    /\ invocations[p] >= 2 /\ InCall(p)
    /\ PreviousResult(p).status = "Failed"
    /\ PreviousResult(p).error =
          error_msg(side = "hub", side = "spoke")
    /\ Truthy(hist[p].pre[side])
    /\ \A other \in Sides \ {side} : ~Truthy(hist[p].pre[other])

C30_RetriesFullCycle ==
    \A p \in Pairs : \A side \in Sides :
        OnlySideCreated(p, side) /\ pc[p] = "return" =>
            /\ Val(result[p]).action # "No Change"
            /\ Len(CallsOf(p, "delete", side)) >= 1
            /\ \A s \in Sides : Len(CallsOf(p, "create", s)) >= 1


(***************************************************************************)
(* C31.  Phase ordering: within a region pair no pair reconciliation       *)
(* starts before the hub scan and the spoke scan have completed for all    *)
(* their subscriptions, and the orphan sweep starts only after the         *)
(* reconciliation of every region pair has finished.                       *)
(***************************************************************************)
\* the scan of the role ran and none of its units remains
ScanCompleted(sc, role) ==
    /\ \E sub \in SubIds : sc.status[role][sub] # "none"
    /\ \A sub \in SubIds : sc.status[role][sub] # "pending"

C31_PhaseOrdering ==
    [][/\ (scan.phase # "off" /\ scan'.submitted # scan.submitted) =>
             \A role \in Roles : ScanCompleted(scan, role)
       /\ (scan.phase # "off" /\ scan'.completed # scan.completed) =>
             scan'.completed \subseteq scan.submitted
       /\ (scan.phase # "off" /\ scan'.phase = "sweep_called") =>
             /\ scan.started = 1..Len(RegionPairs)
             /\ scan.completed = scan.submitted]_vars

\* the sweep is called in a run that went through every region pair and
\* reconciled several pairs
C31_Witness ==
    /\ scan.phase = "sweep_called"
    /\ scan.started = 1..Len(RegionPairs)
    /\ Cardinality(scan.completed) >= 2


(***************************************************************************)
(* C32.  Within one pair that is not both-healthy, the hub-side create is  *)
(* attempted before the spoke-side create, the spoke-side create is        *)
(* attempted whatever the outcome of the hub-side create and of the        *)
(* preceding deletes, and the PairResult is appended only after both       *)
(* create outcomes are known.                                              *)
(***************************************************************************)
CreateCalls(p, side) ==
    {i \in 1..Len(hist[p].calls) :
        hist[p].calls[i].op = "create" /\ hist[p].calls[i].side = side}

\* the invocation is past its two create_peering calls
PastCreates(p) ==
    \/ pc[p] = "record"
    \/ pc[p] = "return" /\ Val(result[p]).action # "No Change"

\* the invocation has started and appended no PairResult yet
ResultPending(p) == pc[p] \notin {"off", "idle", "return"}

C32_CreateOrder ==
    /\ \A i \in CreateCalls(ActivePair, "hub") : \A j \in CreateCalls(ActivePair, "spoke") :
          i < j
    /\ PastCreates(ActivePair) =>
          /\ CreateCalls(ActivePair, "hub") # {}
          /\ CreateCalls(ActivePair, "spoke") # {}
    /\ Len(report_data.all_peerings) =
          IF ResultPending(ActivePair) THEN invocations[ActivePair] - 1
          ELSE invocations[ActivePair]

\* a delete raised, the hub-side create failed at every attempt, the
\* spoke-side create was made all the same and succeeded, and the result,
\* Failed, is appended
C32_Witness ==
    LET calls == hist[ActivePair].calls
    IN /\ pc[ActivePair] = "return"
       /\ Val(result[ActivePair]).action = "Failed"
       /\ \E i \in 1..Len(calls) : calls[i].op = "delete" /\ ~calls[i].ok
       /\ \A i \in CreateCalls(ActivePair, "hub") : ~calls[i].ok
       /\ \E j \in CreateCalls(ActivePair, "spoke") : calls[j].ok
       /\ report_data.all_peerings[Len(report_data.all_peerings)] = Val(result[ActivePair])


(***************************************************************************)
(* C33.  Two distinct hub x spoke pairs reconciled in parallel never read  *)
(* or mutate the same peering record (same owning network and same         *)
(* peering name), for every set of scanned networks, including distinct    *)
(* networks of different subscriptions that share a display name.          *)
(***************************************************************************)
TouchedKeys(u) == {t.key : t \in units.touched[u]}

C33_DisjointRecords ==
    units.phase = "pool" =>
        \A u \in DOMAIN units.pc : \A v \in DOMAIN units.pc :
            u # v => TouchedKeys(u) \cap TouchedKeys(v) = {}


(***************************************************************************)
(* C34.  At the end of a run the detailed failure log is retained if and   *)
(* only if at least one critical-failure record was produced during the    *)
(* run; with no critical failure the log is removed.                       *)
(***************************************************************************)
C34_FailureLogRetainedIffCritical ==
    (RunOver /\ run.failure_log_cleanup # "not_called") =>
        (run.failure_log_file <=> RunHadCriticalFailure)


(***************************************************************************)
(* C35.  The Orphan Collector never deletes a peering whose remote network *)
(* still exists in a valid region of a reachable subscription, including   *)
(* in runs where listing the networks of some subscription fails while the *)
(* valid-network set is being built.                                       *)
(***************************************************************************)
\* a network of a subscription that has a client, in a valid region, has the
\* identifier, letter case apart
RemoteStillExists(remote_id) ==
    \E vnet \in SweepVNets :
        /\ Lower(vnet.id) = Lower(remote_id)
        /\ Lower(vnet.location) \in {Lower(r) : r \in ValidRegions}

C35_LivePeeringNeverDeleted ==
    \A i \in 1..Len(sweep_hist.deletes) :
        ~RemoteStillExists(
            Val(sweep_hist.pre[sweep_hist.deletes[i].key]).remote_virtual_network)

(***************************************************************************)
(* C36.  Whenever the Pair Reconciler returns NoChange for a pair (H, S),   *)
(* the hub-side peering it judged healthy has S as its remote-network      *)
(* identifier and the spoke-side peering has H as its remote-network       *)
(* identifier.                                                             *)
(***************************************************************************)
ReturnedNoChange(p) ==
    pc[p] = "return" /\ Val(result[p]).action = "No Change"

PointsAt(peering, vnet) ==
    Lower(Val(peering).remote_virtual_network) = Lower(vnet.id)

C36_NoChangeRemotesMatch ==
    \A p \in Pairs :
        ReturnedNoChange(p) =>
            /\ PointsAt(existing[p].hub, spoke_vnet(p))
            /\ PointsAt(existing[p].spoke, hub_vnet(p))

(***************************************************************************)
(* C37.  The Pair Reconciler reports action Created, and skips the delete  *)
(* step, only when neither side's peering existed at the provider at the   *)
(* moment it was checked; a getPeering call that fails with an error other *)
(* than not-found does not cause an existing peering to be treated as      *)
(* absent.                                                                 *)
(***************************************************************************)
\* the invocation went on to the creates without issuing a delete
DeleteSkipped(p) ==
    /\ CallIndex(p, "delete") = {}
    /\ \/ pc[p] \in {"create_hub", "create_spoke", "record"}
       \/ pc[p] = "return" /\ Val(result[p]).action # "No Change"

NeitherSideExisted(p) == ~Truthy(hist[p].pre.hub) /\ ~Truthy(hist[p].pre.spoke)

C37_CreatedOnlyWhenAbsent ==
    \A p \in Pairs :
        /\ DeleteSkipped(p) => NeitherSideExisted(p)
        /\ (pc[p] = "return" /\ Val(result[p]).action = "Created") => NeitherSideExisted(p)

(***************************************************************************)
(* C38.  As claimed, report stream consistency: whenever no pair           *)
(* reconciliation is in progress, every entry of the successful-pairs      *)
(* stream and every entry of the failed-pairs stream corresponds to        *)
(* exactly one PairResult in the all-pairs stream with the same hub and    *)
(* spoke, no pair is in both the successful and the failed stream, and the *)
(* size of the all-pairs stream equals successful + failed + the number of *)
(* NoChange results.                                                       *)
(***************************************************************************)
NoReconciliationInProgress == \A p \in Pairs : pc[p] \in {"idle", "off"}

\* the hub and spoke names of an entry of each stream
NamesOfSuccessful(entry) == <<entry[1], entry[4]>>
NamesOfFailed(entry) == <<entry.hub_vnet, entry.spoke_vnet>>
NamesOfResult(r) == <<r.hub_vnet, r.spoke_vnet>>

ResultsNamed(names) ==
    {j \in 1..Len(report_data.all_peerings) :
        NamesOfResult(report_data.all_peerings[j]) = names}

NoChangeResults ==
    {j \in 1..Len(report_data.all_peerings) :
        report_data.all_peerings[j].action = "No Change"}

StreamSizesAddUp ==
    Len(report_data.all_peerings) =
        Len(report_data.successful_peerings) + Len(report_data.failed_peerings)
        + Cardinality(NoChangeResults)

C38_OneResultPerStreamEntry ==
    NoReconciliationInProgress =>
        /\ \A i \in 1..Len(report_data.successful_peerings) :
              Cardinality(ResultsNamed(NamesOfSuccessful(report_data.successful_peerings[i]))) = 1
        /\ \A i \in 1..Len(report_data.failed_peerings) :
              Cardinality(ResultsNamed(NamesOfFailed(report_data.failed_peerings[i]))) = 1
        /\ \A i \in 1..Len(report_data.successful_peerings) :
              \A j \in 1..Len(report_data.failed_peerings) :
                 NamesOfSuccessful(report_data.successful_peerings[i]) #
                    NamesOfFailed(report_data.failed_peerings[j])
        /\ StreamSizesAddUp

\* C38, amended: whenever no pair reconciliation is in progress, for every
\* pair of names the successful stream has as many entries as the all-pairs
\* stream has Connected results with action Created or Repaired, the failed
\* stream has as many entries as the all-pairs stream has Failed results,
\* and the sizes add up; a pair of names reconciled more than once has
\* several results and can be in both streams.
C38_StreamsMatchResultCounts ==
    NoReconciliationInProgress =>
        /\ \A p \in Pairs :
              LET names == <<hub_vnet(p).name, spoke_vnet(p).name>>
                  all == report_data.all_peerings
              IN /\ Cardinality({i \in 1..Len(report_data.successful_peerings) :
                        NamesOfSuccessful(report_data.successful_peerings[i]) = names})
                    = Cardinality({j \in ResultsNamed(names) :
                        all[j].status = "Connected"
                        /\ all[j].action \in {"Created", "Repaired"}})
                 /\ Cardinality({i \in 1..Len(report_data.failed_peerings) :
                        NamesOfFailed(report_data.failed_peerings[i]) = names})
                    = Cardinality({j \in ResultsNamed(names) : all[j].status = "Failed"})
        /\ StreamSizesAddUp

\* no reconciliation is in progress and a pair reconciled twice, once Failed
\* and once with both creates succeeding, is in both streams
C38_Witness ==
    /\ NoReconciliationInProgress
    /\ \E i \in 1..Len(report_data.successful_peerings) :
          \E j \in 1..Len(report_data.failed_peerings) :
             NamesOfSuccessful(report_data.successful_peerings[i]) =
                NamesOfFailed(report_data.failed_peerings[j])

(***************************************************************************)
(* C39.  For every max_length argument large enough to hold the fixed      *)
(* prefix, separator and hash suffix, and every pair of names,             *)
(* generate_peering_name(a, b, max_length) has length at most max_length   *)
(* (not only for the default 79, and for odd and even limits alike).       *)
(***************************************************************************)
\* "cngfw_dnd-", "-to-" and "-" with the four characters of the hash
LeastLimit == Len("cngfw_dnd-") + Len("-to-") + Len("-") + 4

C39_WithinEveryLimit ==
    (Truthy(naming.last) /\ Val(naming.last).max_length >= LeastLimit) =>
        Len(Val(naming.last).returned) <= Val(naming.last).max_length

(***************************************************************************)
(* C40.  WebPerformanceTester.stress_test ramps up to max_users: for every *)
(* max_users >= 1 the number of concurrent requests per step increases by  *)
(* users_per_step at each step, the last step issues exactly max_users     *)
(* concurrent requests, and the call returns one result per issued         *)
(* request.                                                                *)
(***************************************************************************)
RECURSIVE SumOf(_)
SumOf(seq) == IF seq = <<>> THEN 0 ELSE Head(seq) + SumOf(Tail(seq))

C40_RampsUpToMaxUsers ==
    stress.phase = "returned" =>
        /\ \A i \in 2..Len(stress.issued) :
              stress.issued[i] - stress.issued[i - 1] = stress.users_per_step
        /\ stress.issued # <<>>
        /\ stress.issued[Len(stress.issued)] = stress.max_users
        /\ stress.results = SumOf(stress.issued)

=============================================================================
